---------------------------- MODULE Spec2Model ----------------------------
(***************************************************************************)
(* Model of the browser-history extraction module                          *)
(* (phishing_detector_main.py and the phishing_detector package).          *)
(*                                                                         *)
(* The module holds eleven specifications over one set of variables:       *)
(*   SpecTime   - the timestamp conversions of the readers                 *)
(*   SpecDomain - ArtifactCreator.extract_domain                           *)
(*   SpecGate   - ArtifactCreator.create_url_artifact, called directly     *)
(*   SpecScan   - the read loop of the binary parsers                      *)
(*   Spec       - a run of UrlPhishingIngestModule.process over a data     *)
(*                source                                                   *)
(*   SpecAssoc  - the association of a timestamp with a url found in a     *)
(*                binary buffer                                            *)
(*   SpecStart  - startUp followed by a run of process                     *)
(*   SpecBridge - MLBridge with its reader thread and its child process;   *)
(*                SpecBridgeLive adds the fairness of the calling thread   *)
(*   SpecBookmarks - the walk of a Chromium bookmark tree                  *)
(*   SpecExtract - the search of a WebCache window for url patterns        *)
(***************************************************************************)
EXTENDS Integers, Sequences, FiniteSets, TLC

VARIABLES
    convRaw,      \* the raw value a reader got from getLong / getDouble
    convWindow,   \* the eight bytes of a candidate FILETIME window
    convOp,       \* the conversion that has been applied ("none" before)
    convOut,      \* its result
    convFound     \* window tests: whether the window was accepted

convVars == <<convRaw, convWindow, convOp, convOut, convFound>>

VARIABLES
    dUrl,         \* the argument of extract_domain
    dPc,          \* "start", "once" (one call made), "twice"
    dOut,         \* extract_domain(dUrl)
    dOut2         \* extract_domain(dOut)

domVars == <<dUrl, dPc, dOut, dOut2>>

VARIABLES
    art_url_history,  \* UrlPhishingIngestModule.art_url_history: "set" or "None"
    url_count,        \* UrlPhishingIngestModule.url_count
    domain_set,       \* UrlPhishingIngestModule.domain_set
    browser_counts,   \* UrlPhishingIngestModule.browser_counts (label -> count)
    extracted_urls,   \* UrlPhishingIngestModule.extracted_urls
    blackboard,       \* the artifacts created in the case database, in order
    calls,            \* number of create_url_artifact calls made so far
    lastCall          \* the arguments of the latest call and the sink's behaviour

statVars == <<url_count, domain_set, browser_counts, extracted_urls>>

gateVars == <<art_url_history, statVars, blackboard, calls, lastCall>>

VARIABLES
    pc,           \* where process() and the processor it has called stand
    cancelled,    \* what context.dataSourceIngestIsCancelled() returns
    image,        \* which data source the run is given ("full", "single")
    fault,        \* data source: how each candidate file is damaged
    sinkMode,     \* how the artifact sink behaves during this run
    tempFiles,    \* the scratch copies present in the case's temp directory
    opened,       \* the files handed to a parser so far, in order
    finished,     \* the files whose parser has returned
    scan,         \* per family: NotStarted, Scanning, Cancelled, Done
    result,       \* the value process() returned ("none" before)
    reports       \* number of summary reports generated

runVars == <<pc, cancelled, image, fault, sinkMode, tempFiles, opened, finished,
             scan, result, reports>>

VARIABLES
    scanPc,       \* where the read loop of a binary parser stands
    file_size,    \* size in bytes of the file being scanned
    unread,       \* bytes the input stream has not delivered yet
    bytes_read,   \* the result of the latest inputStream.read(buffer)
    content_len,  \* len(content_buffer)
    handed,       \* bytes passed to extract_urls_from_*_buffer so far
    kept_from,    \* the offset in the file of content_buffer[0]
    windows       \* the slices of the file passed to the extractor, in order

scanVars == <<scanPc, file_size, unread, bytes_read, content_len, handed,
              kept_from, windows>>

VARIABLES
    startUpResult,  \* how startUp ended: "none" (not called), "returned" or
                    \* "IngestModuleException"
    skCase          \* what the case database answered to the calls of startUp

startVars == <<startUpResult, skCase>>

VARIABLES
    is_ready,          \* MLBridge.is_ready
    process,           \* MLBridge.process: "None" or "set"
    process_reader,    \* MLBridge.process_reader: "None" or "open"
    process_writer,    \* MLBridge.process_writer: "None" or "open"
    pending_requests,  \* MLBridge.pending_requests (url -> "None" or a label)
    child,             \* the predict_bridge.py process: "absent", "loading",
                       \* "ready", "exited"
    stdin,             \* the lines written to the child it has not read yet
    stdout,            \* the lines the child has written, not yet read
    mainPc,            \* where the thread calling the bridge stands
    polls,             \* iterations made by the wait loop being executed
    startRet,          \* what start_bridge returned ("none" before)
    predicts,          \* number of predict_url calls made
    call,              \* the latest predict_url call: its url, the is_ready
                       \* it read, whether it sent a request, what it returned
    readerPc,          \* where the reader thread stands
    line               \* the line the reader thread has read

bridgeVars == <<is_ready, process, process_reader, process_writer,
                pending_requests, child, stdin, stdout, mainPc, polls,
                startRet, predicts, call, readerPc, line>>

VARIABLES
    content_bytes,  \* the buffer handed to a timestamp extractor
    url_bytes,      \* the bytes of the url it is to look for
    assocOp,        \* the extractor applied: "none", "ie", "webcache"
    assocPc,        \* "start", "loop" (in its for loop), "done" (returned)
    assocI,         \* the loop variable i
    assocOut        \* the timestamp it returned

assocVars == <<content_bytes, url_bytes, assocOp, assocPc, assocI, assocOut>>

VARIABLES
    bmRoot,     \* the folder extract_bookmarks_from_folder is called with
    bmStack,    \* the active calls, outermost first
    bmEmitted,  \* the calls of create_url_artifact made so far, in order
    bmPc        \* "idle", "walking", "done"

bookVars == <<bmRoot, bmStack, bmEmitted, bmPc>>

VARIABLES
    exBuffer,   \* the window extract_urls_from_webcache_buffer is called with
    exPattern,  \* the pattern in work: 0 before the call, 5 after the return
    exMatches,  \* the matches of that pattern, as spans of the window
    exIndex,    \* the match the loop has reached
    exCalls     \* the calls of create_url_artifact made so far, in order

extractVars == <<exBuffer, exPattern, exMatches, exIndex, exCalls>>

(***************************************************************************)
(* Arbitrary-precision integers.  Jython evaluates the timestamp           *)
(* arithmetic on Python long values (no wrap-around); the model checker    *)
(* has 32-bit integers, so a value is kept as a sign and NumLimbs limbs    *)
(* in base Base, least significant limb first, and the arithmetic is the   *)
(* schoolbook one.                                                         *)
(***************************************************************************)
Base == 100

NumLimbs == 10

Limbs == 1..NumLimbs

MagZero == [i \in Limbs |-> 0]

RECURSIVE MagOfIntFrom(_, _)
MagOfIntFrom(n, i) ==
    IF i > NumLimbs THEN <<>>
    ELSE <<n % Base>> \o MagOfIntFrom(n \div Base, i + 1)

\* the limbs of 0 <= n < 2^31
MagOfInt(n) == MagOfIntFrom(n, 1)

MagCmp(a, b) ==
    LET D == {i \in Limbs : a[i] # b[i]}
    IN  IF D = {} THEN 0
        ELSE LET m == CHOOSE i \in D : \A j \in D : j <= i
             IN  IF a[m] > b[m] THEN 1 ELSE -1

RECURSIVE MagAddFrom(_, _, _, _)
MagAddFrom(a, b, i, carry) ==
    IF i > NumLimbs THEN <<>>
    ELSE LET t == a[i] + b[i] + carry
         IN  <<t % Base>> \o MagAddFrom(a, b, i + 1, t \div Base)

MagAdd(a, b) == MagAddFrom(a, b, 1, 0)

RECURSIVE MagSubFrom(_, _, _, _)
MagSubFrom(a, b, i, borrow) ==
    IF i > NumLimbs THEN <<>>
    ELSE LET t == a[i] - b[i] - borrow
         IN  <<(t + Base) % Base>>
             \o MagSubFrom(a, b, i + 1, IF t < 0 THEN 1 ELSE 0)

\* a - b for a >= b
MagSub(a, b) == MagSubFrom(a, b, 1, 0)

RECURSIVE MagMulFrom(_, _, _, _)
MagMulFrom(a, m, i, carry) ==
    IF i > NumLimbs THEN <<>>
    ELSE LET t == a[i] * m + carry
         IN  <<t % Base>> \o MagMulFrom(a, m, i + 1, t \div Base)

\* a * m for 0 <= m <= 10^6
MagMulSmall(a, m) == MagMulFrom(a, m, 1, 0)

\* long division from the most significant limb down; rem is the remainder
\* of the limbs above i
RECURSIVE MagDivFrom(_, _, _, _)
MagDivFrom(a, d, i, rem) ==
    IF i = 0 THEN <<>>
    ELSE LET t == rem * Base + a[i]
         IN  MagDivFrom(a, d, i - 1, t % d) \o <<t \div d>>

\* the quotient of a by a divisor 0 < d <= 10^7
MagDivSmall(a, d) == MagDivFrom(a, d, NumLimbs, 0)

RECURSIVE MagModFrom(_, _, _, _)
MagModFrom(a, d, i, rem) ==
    IF i = 0 THEN rem
    ELSE MagModFrom(a, d, i - 1, (rem * Base + a[i]) % d)

\* the remainder of a by a divisor 0 < d <= 10^7
MagModSmall(a, d) == MagModFrom(a, d, NumLimbs, 0)

BigMake(neg, mag) == [neg |-> neg /\ mag # MagZero, mag |-> mag]

BigZero == [neg |-> FALSE, mag |-> MagZero]

\* |n| < 2^31
BigOfInt(n) == BigMake(n < 0, MagOfInt(IF n < 0 THEN 0 - n ELSE n))

\* hi * 10^12 + mid * 10^6 + lo, each part below 2^31 / Base
Big3(hi, mid, lo) ==
    BigMake(FALSE,
        MagAdd(MagMulSmall(MagAdd(MagMulSmall(MagOfInt(hi), 1000000),
                                  MagOfInt(mid)), 1000000),
               MagOfInt(lo)))

BigNeg(x) == BigMake(~x.neg, x.mag)

BigCmp(x, y) ==
    IF x.neg # y.neg THEN (IF x.neg THEN -1 ELSE 1)
    ELSE IF x.neg THEN MagCmp(y.mag, x.mag) ELSE MagCmp(x.mag, y.mag)

BigGT(x, y) == BigCmp(x, y) = 1

BigLT(x, y) == BigCmp(x, y) = -1

BigLE(x, y) == BigCmp(x, y) # 1

BigAdd(x, y) ==
    IF x.neg = y.neg THEN BigMake(x.neg, MagAdd(x.mag, y.mag))
    ELSE IF MagCmp(x.mag, y.mag) >= 0
         THEN BigMake(x.neg, MagSub(x.mag, y.mag))
         ELSE BigMake(y.neg, MagSub(y.mag, x.mag))

BigSub(x, y) == BigAdd(x, BigNeg(y))

\* Python 2 "/" and "//" on integers: the quotient rounded towards minus
\* infinity, for a divisor 0 < d <= 10^7
BigFloorDiv(x, d) ==
    LET q == MagDivSmall(x.mag, d)
        r == MagModSmall(x.mag, d)
    IN  IF ~x.neg THEN BigMake(FALSE, q)
        ELSE IF r = 0 THEN BigMake(TRUE, q)
        ELSE BigMake(TRUE, MagAdd(q, MagOfInt(1)))

BigMulSmall(x, m) == BigMake(x.neg, MagMulSmall(x.mag, m))

(***************************************************************************)
(* Timestamp conversions, one definition per place of the source.          *)
(***************************************************************************)
\* 11644473600000000
ChromiumEpochOffset == Big3(11644, 473600, 0)

\* 116444736000000000
FiletimeEpochOffset == Big3(116444, 736000, 0)

SafariEpochOffset == BigOfInt(978307200)

\* the history conversion with a quotient rounded towards zero
ChromiumHistoryTime_Trunc(visit_time) ==
    IF BigGT(visit_time, BigZero)
    THEN LET d == BigSub(visit_time, ChromiumEpochOffset)
         IN  BigMake(d.neg, MagDivSmall(d.mag, 1000000))
    ELSE BigZero

\* chromium_processor.py:211 (history rows)
ChromiumHistoryTime(visit_time) ==
    IF BigGT(visit_time, BigZero)
    THEN BigFloorDiv(BigSub(visit_time, ChromiumEpochOffset), 1000000)
    ELSE BigZero

\* chromium_processor.py:284 (bookmark nodes)
ChromiumBookmarkTime(chrome_time) ==
    IF BigGT(chrome_time, BigZero)
    THEN BigFloorDiv(BigSub(chrome_time, ChromiumEpochOffset), 1000000)
    ELSE BigZero

\* chromium_processor.py:325 (download rows)
ChromiumDownloadTime(start_time) ==
    IF BigGT(start_time, BigZero)
    THEN BigFloorDiv(BigSub(start_time, ChromiumEpochOffset), 1000000)
    ELSE BigZero

\* chromium_processor.py:390 (login rows)
ChromiumLoginTime(date_created) ==
    IF BigGT(date_created, BigZero)
    THEN BigFloorDiv(BigSub(date_created, ChromiumEpochOffset), 1000000)
    ELSE BigZero

\* chromium_processor.py:437 (favicon rows)
ChromiumFaviconTime(last_updated) ==
    IF BigGT(last_updated, BigZero)
    THEN BigFloorDiv(BigSub(last_updated, ChromiumEpochOffset), 1000000)
    ELSE BigZero

\* firefox_processor.py:208 (the query has already divided by 1000000)
FirefoxHistoryTime(visit_date) ==
    IF BigGT(visit_date, BigZero) THEN visit_date ELSE BigZero

\* firefox_processor.py:232
FirefoxBookmarkTime(dateAdded) ==
    IF BigGT(dateAdded, BigZero) THEN dateAdded ELSE BigZero

\* firefox_processor.py:262 (moz_downloads in places.sqlite)
FirefoxPlacesDownloadTime(start_time) ==
    IF BigGT(start_time, BigZero) THEN BigFloorDiv(start_time, 1000000)
    ELSE BigZero

\* firefox_processor.py:300 (downloads.sqlite)
FirefoxDownloadTime(start_time) ==
    IF BigGT(start_time, BigZero) THEN BigFloorDiv(start_time, 1000000)
    ELSE BigZero

\* the Safari conversion without the test visit_time > 0
SafariHistoryTime_NoGuard(visit_time) == BigAdd(visit_time, SafariEpochOffset)

\* safari_edge_processor.py:124 (visit_time is read with getDouble; the
\* model takes its values in whole seconds)
SafariHistoryTime(visit_time) ==
    IF BigGT(visit_time, BigZero) THEN BigAdd(visit_time, SafariEpochOffset)
    ELSE BigZero

\* ie_processor.py:311-315 and 430-434: eight bytes, little-endian:
\* byte j contributes (b & 0xFF) << (j * 8)
RECURSIVE DecodeFrom(_, _)
DecodeFrom(filetime_bytes, j) ==
    IF j > 8 THEN MagZero
    ELSE MagAdd(MagMulSmall(DecodeFrom(filetime_bytes, j + 1), 256),
                MagOfInt(filetime_bytes[j]))

DecodeFiletime(filetime_bytes) == BigMake(FALSE, DecodeFrom(filetime_bytes, 1))

\* the index.dat window test without the calendar bound
IeWindowTimestamp_NoBound(filetime) ==
    IF BigGT(filetime, FiletimeEpochOffset)
    THEN [found |-> TRUE,
          ts |-> BigFloorDiv(BigSub(filetime, FiletimeEpochOffset), 10000000)]
    ELSE [found |-> FALSE, ts |-> BigZero]

\* ie_processor.py:320-326: the test of one candidate window of index.dat
IeWindowTimestamp(filetime) ==
    IF BigGT(filetime, FiletimeEpochOffset)
    THEN LET unix_timestamp ==
                 BigFloorDiv(BigSub(filetime, FiletimeEpochOffset), 10000000)
         IN  IF BigLT(BigOfInt(631152000), unix_timestamp)
                /\ BigLT(unix_timestamp, BigOfInt(1893456000))
             THEN [found |-> TRUE, ts |-> unix_timestamp]
             ELSE [found |-> FALSE, ts |-> BigZero]
    ELSE [found |-> FALSE, ts |-> BigZero]

\* ie_processor.py:437-442: the test of one candidate window of WebCache
WebcacheWindowTimestamp(filetime) ==
    IF BigGT(filetime, FiletimeEpochOffset)
    THEN LET unix_timestamp ==
                 BigFloorDiv(BigSub(filetime, FiletimeEpochOffset), 10000000)
         IN  IF BigLT(BigOfInt(788918400), unix_timestamp)
                /\ BigLT(unix_timestamp, BigOfInt(1893456000))
             THEN [found |-> TRUE, ts |-> unix_timestamp]
             ELSE [found |-> FALSE, ts |-> BigZero]
    ELSE [found |-> FALSE, ts |-> BigZero]

(***************************************************************************)
(* SpecTime: a raw value and a window are drawn from the input sets and    *)
(* one conversion is applied.                                              *)
(***************************************************************************)
MaxLong == Big3(9223372, 36854, 775807)

MinLong == BigNeg(BigAdd(MaxLong, BigOfInt(1)))

RawHi == {0, 11644, 13222}

RawMid == {0, 310400, 473599, 473600, 473660}

RawLo == {0, 1, 999999}

RawInputs ==
    {Big3(h, m, l) : h \in RawHi, m \in RawMid, l \in RawLo}
    \cup {BigNeg(Big3(h, m, l)) : h \in {0, 11644}, m \in {0, 473600}, l \in {0, 1}}
    \cup {BigOfInt(n) : n \in {60, 1000000, 978307200, 1577836800}}
    \cup {MaxLong, MinLong}

\* the bytes (b & 0xFF) of a 64-bit value, least significant first
RECURSIVE BytesFrom(_, _)
BytesFrom(mag, j) ==
    IF j > 8 THEN <<>>
    ELSE <<MagModSmall(mag, 256)>> \o BytesFrom(MagDivSmall(mag, 256), j + 1)

ToBytes(x) == BytesFrom(x.mag, 1)

\* raw FILETIME values: 0, 1, the epoch offset, 1700, the calendar bounds
\* of both formats and their neighbours, 2015, 2099, 2^64 - 1
FiletimeInputs ==
    {BigZero, BigOfInt(1), FiletimeEpochOffset,
     BigAdd(FiletimeEpochOffset, BigOfInt(1)),
     Big3(31241, 376000, 0),
     Big3(122756, 256000, 0), Big3(122756, 256009, 999999),
     Big3(122756, 256010, 0),
     Big3(124333, 920000, 0), Big3(124333, 920009, 999999),
     Big3(124333, 920010, 0),
     Big3(130645, 440000, 0), Big3(132223, 104000, 1234567),
     Big3(135379, 295999, 999999), Big3(135379, 296000, 0),
     Big3(135379, 296010, 0),
     Big3(157153, 824000, 0), Big3(18446744, 73709, 551615)}

WindowInputs == {ToBytes(x) : x \in FiletimeInputs}

ConvInit ==
    /\ convRaw \in RawInputs
    /\ convWindow \in WindowInputs
    /\ convOp = "none"
    /\ convOut = BigZero
    /\ convFound = FALSE

Convert(op, out) ==
    /\ convOp = "none"
    /\ convOp' = op
    /\ convOut' = out
    /\ convFound' = FALSE
    /\ UNCHANGED <<convRaw, convWindow, domVars, gateVars, runVars, scanVars, startVars, bridgeVars, assocVars, bookVars, extractVars>>

ConvChromiumHistory == Convert("chromium_history", ChromiumHistoryTime(convRaw))

ConvChromiumBookmark == Convert("chromium_bookmark", ChromiumBookmarkTime(convRaw))

ConvChromiumDownload == Convert("chromium_download", ChromiumDownloadTime(convRaw))

ConvChromiumLogin == Convert("chromium_login", ChromiumLoginTime(convRaw))

ConvChromiumFavicon == Convert("chromium_favicon", ChromiumFaviconTime(convRaw))

ConvFirefoxHistory == Convert("firefox_history", FirefoxHistoryTime(convRaw))

ConvFirefoxBookmark == Convert("firefox_bookmark", FirefoxBookmarkTime(convRaw))

ConvFirefoxPlacesDownload ==
    Convert("firefox_places_download", FirefoxPlacesDownloadTime(convRaw))

ConvFirefoxDownload == Convert("firefox_download", FirefoxDownloadTime(convRaw))

ConvSafariHistory == Convert("safari_history", SafariHistoryTime(convRaw))

\* extract_ie_timestamp_from_buffer on a buffer with this one window:
\* the accepted value, or 0 at the end of the loop
ConvIeWindow ==
    LET r == IeWindowTimestamp(DecodeFiletime(convWindow))
    IN  /\ convOp = "none"
        /\ convOp' = "ie_window"
        /\ convOut' = r.ts
        /\ convFound' = r.found
        /\ UNCHANGED <<convRaw, convWindow, domVars, gateVars, runVars, scanVars, startVars, bridgeVars, assocVars, bookVars, extractVars>>

ConvWebcacheWindow ==
    LET r == WebcacheWindowTimestamp(DecodeFiletime(convWindow))
    IN  /\ convOp = "none"
        /\ convOp' = "webcache_window"
        /\ convOut' = r.ts
        /\ convFound' = r.found
        /\ UNCHANGED <<convRaw, convWindow, domVars, gateVars, runVars, scanVars, startVars, bridgeVars, assocVars, bookVars, extractVars>>

ChromiumOps == {"chromium_history", "chromium_bookmark", "chromium_download",
                "chromium_login", "chromium_favicon"}

WindowOps == {"ie_window", "webcache_window"}

\* the raw value the applied conversion has read
ConvInput == IF convOp \in WindowOps THEN DecodeFiletime(convWindow) ELSE convRaw

NextTime ==
    \/ ConvChromiumHistory
    \/ ConvChromiumBookmark
    \/ ConvChromiumDownload
    \/ ConvChromiumLogin
    \/ ConvChromiumFavicon
    \/ ConvFirefoxHistory
    \/ ConvFirefoxBookmark
    \/ ConvFirefoxPlacesDownload
    \/ ConvFirefoxDownload
    \/ ConvSafariHistory
    \/ ConvIeWindow
    \/ ConvWebcacheWindow

(***************************************************************************)
(* Strings are sequences of one-character strings.                         *)
(***************************************************************************)
Whitespace == {" ", "\t"}

\* not s or not s.strip()
IsBlank(s) == \A i \in 1..Len(s) : s[i] \in Whitespace

\* s.startswith(p)
StartsWith(s, p) == Len(s) >= Len(p) /\ SubSeq(s, 1, Len(p)) = p

\* the first index at which p occurs in s, 0 if none
IndexOf(s, p) ==
    LET H == {i \in 1..(Len(s) - Len(p) + 1) : SubSeq(s, i, i + Len(p) - 1) = p}
    IN  IF H = {} THEN 0 ELSE CHOOSE i \in H : \A j \in H : i <= j

\* p in s
Contains(s, p) == IndexOf(s, p) # 0

\* s.split(p)[0]
SplitHead(s, p) ==
    IF Contains(s, p) THEN SubSeq(s, 1, IndexOf(s, p) - 1) ELSE s

\* s.split(p, 1)[1], for p in s
SplitTail(s, p) == SubSeq(s, IndexOf(s, p) + Len(p), Len(s))

\* Python None (a null from getString); differs from every string
None == <<"None">>

StrHttp == <<"h", "t", "t", "p", ":", "/", "/">>

StrHttps == <<"h", "t", "t", "p", "s", ":", "/", "/">>

StrFtp == <<"f", "t", "p", ":", "/", "/">>

StrWww == <<"w", "w", "w", ".">>

\* ArtifactCreator.extract_domain (artifact_creator.py:158-187)
extract_domain(url) ==
    IF url = None \/ IsBlank(url) THEN <<>>
    ELSE LET u1 == IF StartsWith(url, StrHttp) \/ StartsWith(url, StrHttps)
                      \/ StartsWith(url, StrFtp)
                   THEN url ELSE StrHttp \o url
             u2 == IF Contains(u1, <<":", "/", "/">>)
                   THEN SplitTail(u1, <<":", "/", "/">>) ELSE u1
             d1 == SplitHead(SplitHead(SplitHead(u2, <<"/">>), <<"?">>), <<"#">>)
             d2 == IF Contains(d1, <<":">>) THEN SplitHead(d1, <<":">>) ELSE d1
         IN  IF StartsWith(d2, StrWww) THEN SubSeq(d2, 5, Len(d2)) ELSE d2

(***************************************************************************)
(* SpecDomain: a string is drawn from the inputs and extract_domain is     *)
(* applied to it, and then to its own result.                              *)
(***************************************************************************)
MaxTokens == 4

UrlTokens ==
    {StrHttp, StrHttps, StrFtp, StrWww, <<"W", "W", "W", ".">>,
     <<"a", ".", "b">>, <<"C">>, <<":">>, <<"/">>, <<"?">>, <<"#">>, <<" ">>}

RECURSIVE TokenStrings(_)
TokenStrings(n) ==
    IF n = 0 THEN {<<>>}
    ELSE LET S == TokenStrings(n - 1)
         IN  S \cup {s \o t : s \in S, t \in UrlTokens}

\* "https://WWW.Example.com:8443/a?b"
UrlExample ==
    StrHttps \o <<"W", "W", "W", ".", "E", "x", "a", "m", "p", "l", "e", ".",
                  "c", "o", "m", ":", "8", "4", "4", "3", "/", "a", "?", "b">>

\* "http://example.com/login"
UrlLogin ==
    StrHttp \o <<"e", "x", "a", "m", "p", "l", "e", ".", "c", "o", "m",
                 "/", "l", "o", "g", "i", "n">>

UrlInputs == TokenStrings(MaxTokens) \cup {UrlExample, UrlLogin, <<"\t">>, None}

DomInit ==
    /\ dUrl \in UrlInputs
    /\ dPc = "start"
    /\ dOut = <<>>
    /\ dOut2 = <<>>

DomExtract ==
    /\ dPc = "start"
    /\ dOut' = extract_domain(dUrl)
    /\ dPc' = "once"
    /\ UNCHANGED <<dUrl, dOut2, convVars, gateVars, runVars, scanVars, startVars, bridgeVars, assocVars, bookVars, extractVars>>

DomExtractAgain ==
    /\ dPc = "once"
    /\ dOut2' = extract_domain(dOut)
    /\ dPc' = "twice"
    /\ UNCHANGED <<dUrl, dOut, convVars, gateVars, runVars, scanVars, startVars, bridgeVars, assocVars, bookVars, extractVars>>

NextDomain == DomExtract \/ DomExtractAgain

(***************************************************************************)
(* The emission gate, ArtifactCreator.create_url_artifact.                 *)
(* Browser labels are sequences of words and blanks, e.g.                  *)
(* <<"Google", " ", "Chrome">>.                                            *)
(***************************************************************************)
\* what the artifact sink does when it is asked to store one record
SinkOutcomes ==
    {"ok",                   \* every call succeeds
     "new_artifact_fails",   \* newArtifact raises in all three attempts
     "attributes_fail",      \* getAttributeType or addAttributes raises
     "index_fails",          \* indexArtifact raises
     "post_fails"}           \* postArtifact raises

\* a classifier that leaves the classification empty
classify_url_phishing_Blank(url) == ""

\* ArtifactCreator.classify_url_phishing (artifact_creator.py:189-232)
classify_url_phishing(url) == "PENDING"

\* the dictionary d with d[k] = v
DictPut(d, k, v) ==
    [x \in DOMAIN d \cup {k} |-> IF x = k THEN v ELSE d[x]]

\* a lookup that finds no key
DictGet_Default(d, k) == 0

\* d.get(k, 0)
DictGet(d, k) == IF k \in DOMAIN d THEN d[k] ELSE 0

\* the three tests of artifact_creator.py:38-49, in the order of the code
GateAccepts(url, timestamp, browser_type) ==
    /\ ~(url = None \/ IsBlank(url))
    /\ ~(browser_type = None \/ IsBlank(browser_type))
    /\ ~BigLE(timestamp, BigZero)

\* a record whose domain field is the url itself
UrlData_DomainIsUrl(source_file, url, timestamp, browser_type) ==
    [url |-> url, domain |-> url, timestamp |-> timestamp,
     browser |-> browser_type, classification |-> classify_url_phishing(url),
     file_path |-> source_file]

\* the record appended to extracted_urls (artifact_creator.py:61-69)
UrlData(source_file, url, timestamp, browser_type) ==
    [url |-> url, domain |-> extract_domain(url), timestamp |-> timestamp,
     browser |-> browser_type, classification |-> classify_url_phishing(url),
     file_path |-> source_file]

\* the artifact the sink holds after artifact_creator.py:71-153
Artifact(source_file, url, timestamp, browser_type, sink) ==
    [url |-> url, domain |-> extract_domain(url), timestamp |-> timestamp,
     browser |-> browser_type, classification |-> classify_url_phishing(url),
     file |-> source_file,
     attributes |-> sink # "attributes_fail",
     indexed |-> sink \in {"ok", "post_fails"},
     posted |-> sink \in {"ok", "index_fails"}]

\* a create_url_artifact without the handler of line 155: a failure of
\* newArtifact or addAttributes leaves the call as an exception
SinkRaises_Uncaught(sink) == sink \in {"new_artifact_fails", "attributes_fail"}

\* whether a failure of the sink leaves create_url_artifact as an
\* exception: the handlers of artifact_creator.py:141-145, 148-153 and
\* 155-156 catch all of them
SinkRaises(sink) == FALSE

\* a call of create_url_artifact that ends with an exception in the caller
CallEscapes(url, timestamp, browser_type, sink) ==
    /\ art_url_history = "set"
    /\ GateAccepts(url, timestamp, browser_type)
    /\ SinkRaises(sink)

\* a list that takes the new record at its front
AppendRecord_Front(list, url_data) == <<url_data>> \o list

\* self.module.extracted_urls.append(url_data), artifact_creator.py:69
AppendRecord(list, url_data) == Append(list, url_data)

\* the gate without the test of the timestamp
create_url_artifact_NoTimeTest(source_file, url, timestamp, browser_type, sink) ==
    /\ calls' = calls + 1
    /\ lastCall' = [file |-> source_file, url |-> url, timestamp |-> timestamp,
                    browser |-> browser_type, sink |-> sink]
    /\ UNCHANGED art_url_history
    /\ IF \/ art_url_history = "None"
          \/ browser_type = None
          \/ url = None \/ IsBlank(url)
          \/ IsBlank(browser_type)
       THEN UNCHANGED <<statVars, blackboard>>
       ELSE /\ url_count' = url_count + 1
            /\ domain_set' = IF extract_domain(url) # <<>>
                             THEN domain_set \cup {extract_domain(url)}
                             ELSE domain_set
            /\ browser_counts' = DictPut(browser_counts, browser_type,
                                         DictGet(browser_counts, browser_type) + 1)
            /\ extracted_urls' = AppendRecord(extracted_urls,
                   UrlData(source_file, url, timestamp, browser_type))
            /\ blackboard' = IF sink = "new_artifact_fails" THEN blackboard
                             ELSE Append(blackboard,
                                 Artifact(source_file, url, timestamp, browser_type, sink))

\* a gate that counts the url before it validates the record
create_url_artifact_CountFirst(source_file, url, timestamp, browser_type, sink) ==
    /\ calls' = calls + 1
    /\ lastCall' = [file |-> source_file, url |-> url, timestamp |-> timestamp,
                    browser |-> browser_type, sink |-> sink]
    /\ UNCHANGED art_url_history
    /\ url_count' = url_count + 1
    /\ IF \/ art_url_history = "None"
          \/ browser_type = None
          \/ url = None \/ IsBlank(url)
          \/ IsBlank(browser_type)
          \/ BigLE(timestamp, BigZero)
       THEN UNCHANGED <<domain_set, browser_counts, extracted_urls, blackboard>>
       ELSE /\ domain_set' = IF extract_domain(url) # <<>>
                             THEN domain_set \cup {extract_domain(url)}
                             ELSE domain_set
            /\ browser_counts' = DictPut(browser_counts, browser_type,
                                         DictGet(browser_counts, browser_type) + 1)
            /\ extracted_urls' = AppendRecord(extracted_urls,
                   UrlData(source_file, url, timestamp, browser_type))
            /\ blackboard' = IF sink = "new_artifact_fails" THEN blackboard
                             ELSE Append(blackboard,
                                 Artifact(source_file, url, timestamp, browser_type, sink))

\* ArtifactCreator.create_url_artifact (artifact_creator.py:21-156).
\* browser_type = None raises at line 32 and the handler at line 155 returns.
create_url_artifact(source_file, url, timestamp, browser_type, sink) ==
    /\ calls' = calls + 1
    /\ lastCall' = [file |-> source_file, url |-> url, timestamp |-> timestamp,
                    browser |-> browser_type, sink |-> sink]
    /\ UNCHANGED art_url_history
    /\ IF \/ art_url_history = "None"
          \/ browser_type = None
          \/ url = None \/ IsBlank(url)
          \/ IsBlank(browser_type)
          \/ BigLE(timestamp, BigZero)
       THEN UNCHANGED <<statVars, blackboard>>
       ELSE /\ url_count' = url_count + 1
            /\ domain_set' = IF extract_domain(url) # <<>>
                             THEN domain_set \cup {extract_domain(url)}
                             ELSE domain_set
            /\ browser_counts' = DictPut(browser_counts, browser_type,
                                         DictGet(browser_counts, browser_type) + 1)
            /\ extracted_urls' = AppendRecord(extracted_urls,
                   UrlData(source_file, url, timestamp, browser_type))
            /\ blackboard' = IF sink = "new_artifact_fails" THEN blackboard
                             ELSE Append(blackboard,
                                 Artifact(source_file, url, timestamp, browser_type, sink))

(***************************************************************************)
(* SpecGate: create_url_artifact is called directly, up to MaxCalls times, *)
(* with arguments drawn from the input sets.                               *)
(***************************************************************************)
MaxCalls == 2

\* "http://a.b/x" and "www.", a url whose domain is empty
GateUrls ==
    {None, <<>>, <<" ">>,
     StrHttp \o <<"a", ".", "b", "/", "x">>,
     StrWww}

GateTimes == {BigOfInt(-1), BigZero, BigOfInt(1), BigOfInt(1577836800)}

GateLabels == {None, <<>>, <<" ">>, <<"Firefox">>, <<"Google", " ", "Chrome">>}

NoCall == [file |-> "", url |-> None, timestamp |-> BigZero,
           browser |-> None, sink |-> "ok"]

StatsInit ==
    /\ url_count = 0
    /\ domain_set = {}
    /\ browser_counts = <<>>
    /\ extracted_urls = <<>>
    /\ blackboard = <<>>
    /\ calls = 0
    /\ lastCall = NoCall

GateInit ==
    /\ art_url_history \in {"set", "None"}
    /\ StatsInit

GateCall ==
    /\ calls < MaxCalls
    /\ \E url \in GateUrls, timestamp \in GateTimes, browser_type \in GateLabels :
          \E sink \in (IF GateAccepts(url, timestamp, browser_type)
                       THEN SinkOutcomes ELSE {"ok"}) :
             create_url_artifact("/img/f", url, timestamp, browser_type, sink)
    /\ UNCHANGED <<convVars, domVars, runVars, scanVars, startVars, bridgeVars, assocVars, bookVars, extractVars>>

NextGate == GateCall

GateIdle ==
    /\ art_url_history = "None"
    /\ StatsInit

(***************************************************************************)
(* The data source of Spec: eight candidate files.  The parent path of a   *)
(* file is described by the lower-case strings the code searches for that  *)
(* occur in it (field contains).  A SQLite file lists the rows its queries *)
(* return; a binary file lists the number of 8192-byte reads and the URL   *)
(* matches (with the timestamp found next to each) of its buffer.          *)
(***************************************************************************)
UrlAb == StrHttp \o <<"a", ".", "b", "/", "x">>

UrlWww == StrWww \o <<"a", ".", "b", ":", "8">>

UrlFtp == StrFtp \o <<"a", ".", "b", "/", "d">>

NoRows == <<>>

FullSource ==
    <<[name |-> "History",
       path |-> "/Users/u/AppData/Local/Google/Chrome/User Data/Default/History",
       contains |-> {"chrome/user data", "google", "chrome"},
       isFile |-> TRUE, size |-> 1,
       rows |-> <<[url |-> UrlLogin, time |-> Big3(13222, 310400, 0)],
                  [url |-> UrlAb, time |-> BigZero]>>],
      [name |-> "History",
       path |-> "/Users/u/AppData/Local/Google/Chrome/User Data/Profile 1/History",
       contains |-> {"chrome/user data", "google", "chrome"},
       isFile |-> TRUE, size |-> 1,
       rows |-> <<[url |-> UrlWww, time |-> Big3(11644, 473660, 0)]>>],
      [name |-> "History",
       path |-> "/Users/u/AppData/Local/Google/Chrome/User Data/Profile 2/History",
       contains |-> {"chrome/user data", "google", "chrome"},
       isFile |-> TRUE, size |-> 0,
       rows |-> NoRows],
      [name |-> "places.sqlite",
       path |-> "/Users/u/AppData/Roaming/Mozilla/Firefox/Profiles/p/places.sqlite",
       contains |-> {"firefox", "mozilla"},
       isFile |-> TRUE, size |-> 1,
       rows |-> <<[url |-> UrlAb, time |-> BigOfInt(1577836800)]>>,
       bookmarks |-> <<[url |-> UrlWww, time |-> BigZero]>>,
       has_downloads |-> TRUE,
       downloads |-> <<[url |-> UrlFtp, time |-> Big3(1577, 836800, 0)]>>],
      [name |-> "index.dat",
       path |-> "/Documents and Settings/u/Local Settings/History/History.IE5/index.dat",
       contains |-> {"history"},
       isFile |-> TRUE, size |-> 1, reads |-> 1,
       matches |-> <<[url |-> UrlAb, time |-> BigOfInt(1420070400)],
                     [url |-> UrlFtp, time |-> BigZero]>>],
      [name |-> "WebCacheV01.dat",
       path |-> "/Users/u/AppData/Local/Microsoft/Windows/WebCache/WebCacheV01.dat",
       contains |-> {"microsoft", "webcache"},
       isFile |-> TRUE, size |-> 1, reads |-> 2,
       matches |-> <<[url |-> UrlLogin, time |-> BigOfInt(1420070400)]>>],
      [name |-> "History.db",
       path |-> "/Users/u/Library/Safari/History.db",
       contains |-> {"safari"},
       isFile |-> TRUE, size |-> 1,
       rows |-> <<[url |-> UrlLogin, time |-> BigOfInt(600000000)]>>],
      [name |-> "a.url",
       path |-> "/Users/u/Favorites/a.url",
       contains |-> {"favorites"},
       isFile |-> TRUE, size |-> 1, reads |-> 1,
       url |-> UrlAb]>>

\* a data source that holds one Chrome History file with one visit, of
\* 2020-01-01 00:00:00 UTC
SingleSource ==
    <<[name |-> "History",
       path |-> "/Users/u/AppData/Local/Google/Chrome/User Data/Default/History",
       contains |-> {"chrome/user data", "google", "chrome"},
       isFile |-> TRUE, size |-> 1,
       rows |-> <<[url |-> UrlLogin, time |-> Big3(13222, 310400, 0)]>>]>>

\* a data source that holds WebCache files only: one in the WebCache
\* directory of a Windows profile, one in a directory whose path names no
\* browser, and an empty one
WebCacheSource ==
    <<[name |-> "WebCacheV01.dat",
       path |-> "/Users/u/AppData/Local/Microsoft/Windows/WebCache/WebCacheV01.dat",
       contains |-> {"microsoft", "webcache"},
       isFile |-> TRUE, size |-> 1, reads |-> 1,
       matches |-> <<[url |-> UrlLogin, time |-> BigOfInt(1420070400)]>>],
      [name |-> "WebCacheV01.dat",
       path |-> "/tmp/WebCacheV01.dat",
       contains |-> {},
       isFile |-> TRUE, size |-> 1, reads |-> 1,
       matches |-> <<[url |-> UrlAb, time |-> BigOfInt(1577836800)]>>],
      [name |-> "WebCacheV24.dat",
       path |-> "/tmp/WebCacheV24.dat",
       contains |-> {},
       isFile |-> TRUE, size |-> 0, reads |-> 0,
       matches |-> <<>>]>>

\* the files of dataSource
DataSource ==
    CASE image = "single" -> SingleSource
      [] image = "webcache" -> WebCacheSource
      [] OTHER -> FullSource

FileIds == 1..Len(DataSource)

SqliteNames == {"History", "places.sqlite", "History.db"}

\* the ways a file can be damaged: the JDBC connection fails, the query
\* fails, reading a row fails, or reading the content stream fails
FaultKinds(f) ==
    IF ~DataSource[f].isFile \/ DataSource[f].size = 0 THEN {}
    ELSE IF DataSource[f].name \in SqliteNames THEN {"conn", "query", "row"}
    ELSE {"read"}

NoFault == [f \in FileIds |-> "none"]

MaxFaulty == 1

RECURSIVE FaultMaps(_)
FaultMaps(n) ==
    IF n = 0 THEN {NoFault}
    ELSE LET S == FaultMaps(n - 1)
         IN  S \cup {[g EXCEPT ![f] = k] : g \in S, f \in FileIds,
                                          k \in {"conn", "query", "row", "read"}}

FaultInputs ==
    {g \in FaultMaps(MaxFaulty) :
        \A f \in FileIds : g[f] = "none" \/ g[f] \in FaultKinds(f)}

(***************************************************************************)
(* The scans of process(), in the order of the code.  A unit is one call   *)
(* of a process_* method that loops over the files findFiles returns.      *)
(***************************************************************************)
\* browser_constants.py:8-17 (name, path hint), in the order of the source
CHROMIUM_BROWSERS ==
    <<[name |-> <<"Google", " ", "Chrome">>, path |-> "chrome/user data"],
      [name |-> <<"Microsoft", " ", "Edge">>, path |-> "microsoft/edge/user data"],
      [name |-> <<"Brave">>, path |-> "bravesoftware/brave-browser/user data"],
      [name |-> <<"UC", " ", "Browser">>, path |-> "ucbrowser/user data"],
      [name |-> <<"Yandex">>, path |-> "yandexbrowser/user data"],
      [name |-> <<"Opera">>, path |-> "opera software/opera stable"],
      [name |-> <<"SalamWeb">>, path |-> "salamweb/user data"],
      [name |-> <<"Chromium">>, path |-> "chromium/user data"]>>

\* s.lower() of the words that occur in the labels
Lower(w) ==
    CASE w = "Google" -> "google" [] w = "Chrome" -> "chrome"
      [] w = "Microsoft" -> "microsoft" [] w = "Edge" -> "edge"
      [] w = "Brave" -> "brave" [] w = "UC" -> "uc"
      [] w = "Browser" -> "browser" [] w = "Yandex" -> "yandex"
      [] w = "Opera" -> "opera" [] w = "SalamWeb" -> "salamweb"
      [] w = "Chromium" -> "chromium" [] OTHER -> w

\* browser_name.split()
Words(label) == {label[i] : i \in {j \in 1..Len(label) : label[j] \notin Whitespace}}

\* browser_name.replace(" ", "_")
Sanitize(label) == [i \in 1..Len(label) |-> IF label[i] = " " THEN "_" ELSE label[i]]

ChromiumUnit(i) ==
    [family |-> "chromium", method |-> "process_chromium_history",
     find |-> {"History"}, hint |-> CHROMIUM_BROWSERS[i].path,
     parser |-> "chromium_history", label |-> CHROMIUM_BROWSERS[i].name,
     pollBefore |-> TRUE, pollAfter |-> FALSE]

StageUnit(family, method, find, hint, parser, label, pollAfter) ==
    [family |-> family, method |-> method, find |-> find, hint |-> hint,
     parser |-> parser, label |-> label,
     pollBefore |-> FALSE, pollAfter |-> pollAfter]

LabelFirefox == <<"Firefox">>

LabelIE == <<"Internet", " ", "Explorer">>

LabelIEEdge == <<"Internet", " ", "Explorer/Edge">>

LabelSafari == <<"Safari">>

LabelEdgeLegacy == <<"Edge", " ", "Legacy">>

\* the stages with the Edge Legacy processor called before the Safari one
Units_EdgeBeforeSafari ==
    [i \in 1..Len(CHROMIUM_BROWSERS) |-> ChromiumUnit(i)] \o
    <<StageUnit("firefox", "process_firefox_history", {"places.sqlite"},
                "firefox", "firefox_places", LabelFirefox, TRUE),
      StageUnit("firefox", "process_firefox_bookmarks", {"places.sqlite"},
                "firefox", "firefox_places", LabelFirefox, TRUE),
      StageUnit("firefox", "process_firefox_downloads", {"places.sqlite"},
                "firefox", "firefox_places", LabelFirefox, TRUE),
      StageUnit("firefox", "process_firefox_cookies", {"cookies.sqlite"},
                "firefox", "log_only", LabelFirefox, TRUE),
      StageUnit("firefox", "process_firefox_form_history", {"formhistory.sqlite"},
                "firefox", "log_only", LabelFirefox, FALSE),
      StageUnit("ie", "process_ie_history", {"index.dat"},
                "", "ie_index", LabelIE, TRUE),
      StageUnit("ie", "process_ie_bookmarks", {"a.url"},
                "favorites", "ie_bookmark", LabelIE, TRUE),
      StageUnit("ie", "process_ie_cookies", {"a.txt"},
                "cookies", "log_only", LabelIE, TRUE),
      StageUnit("ie", "process_ie_webcache", {"WebCacheV01.dat", "WebCacheV24.dat"},
                "", "ie_webcache", LabelIE, FALSE),
      StageUnit("edge", "process_edge_legacy", {"WebCacheV01.dat"},
                "", "edge_webcache", LabelEdgeLegacy, FALSE),
      StageUnit("safari", "process_safari_history", {"History.db"},
                "safari", "safari_history", LabelSafari, FALSE)>>

\* process_all_chromium_browsers (chromium_processor.py:27-46),
\* process_all_firefox_browsers (firefox_processor.py:24-57),
\* process_internet_explorer (ie_processor.py:24-59),
\* process_safari_browsers and process_edge_legacy
\* (safari_edge_processor.py:27-93); hint "" is a findFiles call without a
\* parent-path argument
Units ==
    [i \in 1..Len(CHROMIUM_BROWSERS) |-> ChromiumUnit(i)] \o
    <<StageUnit("firefox", "process_firefox_history", {"places.sqlite"},
                "firefox", "firefox_places", LabelFirefox, TRUE),
      StageUnit("firefox", "process_firefox_bookmarks", {"places.sqlite"},
                "firefox", "firefox_places", LabelFirefox, TRUE),
      StageUnit("firefox", "process_firefox_downloads", {"places.sqlite"},
                "firefox", "firefox_places", LabelFirefox, TRUE),
      StageUnit("firefox", "process_firefox_cookies", {"cookies.sqlite"},
                "firefox", "log_only", LabelFirefox, TRUE),
      StageUnit("firefox", "process_firefox_form_history", {"formhistory.sqlite"},
                "firefox", "log_only", LabelFirefox, FALSE),
      StageUnit("ie", "process_ie_history", {"index.dat"},
                "", "ie_index", LabelIE, TRUE),
      StageUnit("ie", "process_ie_bookmarks", {"a.url"},
                "favorites", "ie_bookmark", LabelIE, TRUE),
      StageUnit("ie", "process_ie_cookies", {"a.txt"},
                "cookies", "log_only", LabelIE, TRUE),
      StageUnit("ie", "process_ie_webcache", {"WebCacheV01.dat", "WebCacheV24.dat"},
                "", "ie_webcache", LabelIE, FALSE),
      StageUnit("safari", "process_safari_history", {"History.db"},
                "safari", "safari_history", LabelSafari, FALSE),
      StageUnit("edge", "process_edge_legacy", {"WebCacheV01.dat"},
                "", "edge_webcache", LabelEdgeLegacy, FALSE)>>

NumUnits == Len(Units)

Families == {"chromium", "firefox", "ie", "safari", "edge"}

RECURSIVE SeqOfSet(_)
\* the elements of a set of numbers in ascending order
SeqOfSet(S) ==
    IF S = {} THEN <<>>
    ELSE LET m == CHOOSE x \in S : \A y \in S : x <= y
         IN  <<m>> \o SeqOfSet(S \ {m})

\* fileManager.findFiles(dataSource, name[, parentSubstring]): the files of
\* that name whose parent path contains the substring, in the order of
\* their ids
findFiles(names, hint) ==
    SeqOfSet({f \in FileIds :
                 /\ DataSource[f].name \in names
                 /\ hint = "" \/ hint \in DataSource[f].contains})

\* the file list a unit loops over.  process_ie_webcache
\* (ie_processor.py:117-137) joins the WebCacheV01.dat and WebCacheV24.dat
\* lists and adds the files of the pattern WebCache*.dat not yet in the list
\* a WebCache list that takes the files of the pattern whether or not they
\* are in the list already
UnitFiles_NoUnique(u) ==
    IF Units[u].parser = "ie_webcache"
    THEN findFiles({"WebCacheV01.dat"}, "") \o findFiles({"WebCacheV24.dat"}, "")
         \o findFiles({"WebCacheV01.dat", "WebCacheV24.dat"}, "")
    ELSE findFiles(Units[u].find, Units[u].hint)

UnitFiles(u) ==
    IF Units[u].parser = "ie_webcache"
    THEN LET exact == findFiles({"WebCacheV01.dat"}, "") \o findFiles({"WebCacheV24.dat"}, "")
             generic == findFiles({"WebCacheV01.dat", "WebCacheV24.dat"}, "")
         IN  exact \o SelectSeq(generic, LAMBDA f : \A i \in 1..Len(exact) : exact[i] # f)
    ELSE findFiles(Units[u].find, Units[u].hint)

\* the test of the parent path made before a file is parsed
PathCheck(u, f) ==
    CASE Units[u].family = "chromium" ->
             \E w \in Words(Units[u].label) : Lower(w) \in DataSource[f].contains
      [] Units[u].family = "firefox" -> "firefox" \in DataSource[f].contains
      [] OTHER -> TRUE

IeIndicators == {"internet explorer", "iexplore", "temporary internet files",
                 "inetcache", "webcache", "edge", "microsoft"}

\* the label the unit hands to the parser of file f
UnitLabel(u, f) ==
    IF Units[u].parser = "ie_webcache"
    THEN (IF IeIndicators \cap DataSource[f].contains # {} THEN LabelIE
          ELSE LabelIEEdge)
    ELSE Units[u].label

\* getTempDirectory() + separator + id + "_" + label + suffix
ScratchPath(f, label, suffix) == <<f, Sanitize(label), suffix>>

(***************************************************************************)
(* Spec: one run of process().  A step is the code between two polls of    *)
(* the cancellation signal; the host may set the signal between any two    *)
(* steps.  pc.phase is the loop the run stands in, pc.unit the scan,       *)
(* pc.fi the index in the unit's file list, pc.q the query of the Firefox  *)
(* parser, pc.ri the index of the row, read or match.                      *)
(***************************************************************************)
Pc(phase, u, fi, q, ri) == [phase |-> phase, unit |-> u, fi |-> fi, q |-> q, ri |-> ri]

\* a signal that is never seen
dataSourceIngestIsCancelled_Never == FALSE

\* context.dataSourceIngestIsCancelled() called with no file in work:
\* process() after a family, a processor before a browser or after a stage
dataSourceIngestIsCancelled == cancelled

\* a file loop that opens the next file whatever the signal says
FilePoll_Never == FALSE

\* context.dataSourceIngestIsCancelled() at the head of a file loop
FilePoll == cancelled

\* the last unit of the family of unit u
FamilyLast(u) ==
    CHOOSE v \in u..NumUnits :
        /\ Units[v].family = Units[u].family
        /\ v = NumUnits \/ Units[v + 1].family # Units[u].family

SqliteParsers == {"chromium_history", "firefox_places", "safari_history"}

BinaryParsers == {"ie_index", "ie_webcache", "edge_webcache"}

\* the scratch copy the SQLite parser of unit u writes for file f
\* (chromium_processor.py:189-190, firefox_processor.py:165-166,
\* safari_edge_processor.py:101-102)
TempDbPath(u, f) ==
    ScratchPath(f, UnitLabel(u, f),
                IF Units[u].parser = "firefox_places" THEN "_places.db"
                ELSE "_history.db")

\* the rows the query q of the parser of unit u returns for file f
ResultSet(u, f, q) ==
    CASE Units[u].parser = "firefox_places" /\ q = 2 -> DataSource[f].bookmarks
      [] Units[u].parser = "firefox_places" /\ q = 3 -> DataSource[f].downloads
      [] OTHER -> DataSource[f].rows

\* the conversion the parser of unit u applies to the time column of query q
RowTime(u, q, raw) ==
    CASE Units[u].parser = "chromium_history" -> ChromiumHistoryTime(raw)
      [] Units[u].parser = "safari_history" -> SafariHistoryTime(raw)
      [] Units[u].parser = "firefox_places" /\ q = 1 -> FirefoxHistoryTime(raw)
      [] Units[u].parser = "firefox_places" /\ q = 2 -> FirefoxBookmarkTime(raw)
      [] OTHER -> FirefoxPlacesDownloadTime(raw)

\* every binary parser hands on the timestamp found next to the match
MatchTime_Found(u, m) == m.time

\* the timestamp a binary parser hands on with a match
\* (extract_urls_from_edge_buffer passes 0, safari_edge_processor.py:233)
MatchTime(u, m) ==
    IF Units[u].parser = "edge_webcache" THEN BigZero ELSE m.time

SetScan(fam, st) == scan' = [scan EXCEPT ![fam] = st]

RunInit ==
    /\ pc = Pc("idle", 0, 0, 0, 0)
    /\ cancelled = FALSE
    /\ image \in {"full", "single", "webcache"}
    /\ fault \in FaultInputs
    /\ sinkMode \in SinkOutcomes
    /\ tempFiles = {}
    /\ opened = <<>>
    /\ finished = <<>>
    /\ scan = [fam \in Families |-> "NotStarted"]
    /\ result = "none"
    /\ reports = 0

\* the host cancels the ingest job
Cancel ==
    /\ pc.phase # "done"
    /\ ~cancelled
    /\ cancelled' = TRUE
    /\ UNCHANGED <<pc, image, fault, sinkMode, tempFiles, opened, finished, scan,
                   result, reports>>
    /\ UNCHANGED <<convVars, domVars, gateVars, scanVars, startVars, bridgeVars, assocVars, bookVars, extractVars>>

\* a process() that goes on without an artifact type
ArtifactTypeMissing_Ignored == FALSE

\* if self.art_url_history is None, phishing_detector_main.py:218
ArtifactTypeMissing == art_url_history = "None"

\* process(), phishing_detector_main.py:212-228
ProcessBegin ==
    /\ pc.phase = "idle"
    /\ IF ArtifactTypeMissing
       THEN /\ result' = "ERROR"
            /\ pc' = Pc("done", 0, 0, 0, 0)
       ELSE /\ result' = result
            /\ pc' = Pc("unit", 1, 0, 0, 0)
    /\ UNCHANGED <<cancelled, image, fault, sinkMode, tempFiles, opened, finished,
                   scan, reports>>
    /\ UNCHANGED <<convVars, domVars, gateVars, scanVars, startVars, bridgeVars, assocVars, bookVars, extractVars>>

\* the start of a scan: the poll before a Chromium browser
\* (chromium_processor.py:32-34) and the findFiles call of the process_*
\* method
UnitBegin ==
    /\ pc.phase = "unit"
    /\ IF Units[pc.unit].pollBefore /\ dataSourceIngestIsCancelled
       THEN /\ SetScan(Units[pc.unit].family, "Cancelled")
            /\ pc' = Pc("family_end", FamilyLast(pc.unit), 0, 0, 0)
       ELSE /\ SetScan(Units[pc.unit].family,
                       IF scan[Units[pc.unit].family] = "NotStarted"
                       THEN "Scanning" ELSE scan[Units[pc.unit].family])
            /\ pc' = Pc("files", pc.unit, 1, 0, 0)
    /\ UNCHANGED <<cancelled, image, fault, sinkMode, tempFiles, opened, finished,
                   result, reports>>
    /\ UNCHANGED <<convVars, domVars, gateVars, scanVars, startVars, bridgeVars, assocVars, bookVars, extractVars>>

\* the file the file loop stands at
CurFile == UnitFiles(pc.unit)[pc.fi]

InFileLoop == pc.phase = "files" /\ pc.fi <= Len(UnitFiles(pc.unit))

\* isFile() and getSize() of the loop's first test
Regular(f) == DataSource[f].isFile /\ DataSource[f].size # 0

\* the file passes the three tests at the head of the loop body
Ready(f) == Regular(f) /\ ~FilePoll /\ PathCheck(pc.unit, f)

NextFile == Pc("files", pc.unit, pc.fi + 1, 0, 0)

\* a failure that leaves the file loop, as if only the handler of the
\* process_* method caught it
AfterFailure_LeaveLoop == Pc("unit_end", pc.unit, 0, 0, 0)

\* where a failed parse leaves to: the handler of the parser logs and the
\* parser returns, so the file loop goes on with the next file
\* (chromium_processor.py:222-225, ie_processor.py:203-204, 233-234)
AfterFailure == NextFile

\* the loop goes on without parsing the file: it is not a regular file or
\* is empty, its path fails the test, or the method only logs the file
\* (firefox_processor.py:117-157, ie_processor.py:236-240)
FileSkip ==
    /\ InFileLoop
    /\ \/ ~Regular(CurFile)
       \/ /\ Regular(CurFile) /\ ~FilePoll
          /\ ~PathCheck(pc.unit, CurFile) \/ Units[pc.unit].parser = "log_only"
    /\ pc' = NextFile
    /\ UNCHANGED <<cancelled, image, fault, sinkMode, tempFiles, opened, finished,
                   scan, result, reports>>
    /\ UNCHANGED <<convVars, domVars, gateVars, scanVars, startVars, bridgeVars, assocVars, bookVars, extractVars>>

\* the poll at the head of the file loop returns true: the process_*
\* method returns (e.g. chromium_processor.py:57-58)
FileCancelled ==
    /\ InFileLoop
    /\ Regular(CurFile) /\ FilePoll
    /\ SetScan(Units[pc.unit].family, "Cancelled")
    /\ pc' = Pc("unit_end", pc.unit, 0, 0, 0)
    /\ UNCHANGED <<cancelled, image, fault, sinkMode, tempFiles, opened, finished,
                   result, reports>>
    /\ UNCHANGED <<convVars, domVars, gateVars, scanVars, startVars, bridgeVars, assocVars, bookVars, extractVars>>

\* the head of parse_chromium_history_database (chromium_processor.py:
\* 183-198), parse_firefox_places_database (firefox_processor.py:159-171)
\* and parse_safari_history_database (safari_edge_processor.py:95-111):
\* the scratch copy is written, the connection opened and, but for Firefox,
\* the query run.  An SQLException leaves through the handler of the
\* parser, which returns.
OpenSqlite ==
    /\ InFileLoop
    /\ Ready(CurFile)
    /\ Units[pc.unit].parser \in SqliteParsers
    /\ opened' = Append(opened, CurFile)
    /\ tempFiles' = tempFiles \cup {TempDbPath(pc.unit, CurFile)}
    /\ IF \/ fault[CurFile] = "conn"
          \/ fault[CurFile] = "query" /\ Units[pc.unit].parser # "firefox_places"
       THEN /\ finished' = Append(finished, CurFile)
            /\ pc' = AfterFailure
       ELSE /\ finished' = finished
            /\ pc' = IF Units[pc.unit].parser = "firefox_places"
                     THEN Pc("query", pc.unit, pc.fi, 1, 0)
                     ELSE Pc("rows", pc.unit, pc.fi, 1, 1)
    /\ UNCHANGED <<cancelled, image, fault, sinkMode, scan, result, reports>>
    /\ UNCHANGED <<convVars, domVars, gateVars, scanVars, startVars, bridgeVars, assocVars, bookVars, extractVars>>

\* what follows query q of the Firefox parser: the next sub-parser, or
\* dbConn.close() and the deletion (firefox_processor.py:174-185)
AfterQuery ==
    IF pc.q < 3 THEN Pc("query", pc.unit, pc.fi, pc.q + 1, 0)
    ELSE Pc("close", pc.unit, pc.fi, 0, 0)

\* the head of a Firefox sub-parser (firefox_processor.py:192-196, 217-221,
\* 241-251): executeQuery; its SQLException is caught by the sub-parser
PlacesQuery ==
    /\ pc.phase = "query"
    /\ pc' = IF \/ fault[CurFile] = "query"
                \/ pc.q = 3 /\ ~DataSource[CurFile].has_downloads
             THEN AfterQuery
             ELSE Pc("rows", pc.unit, pc.fi, pc.q, 1)
    /\ UNCHANGED <<cancelled, image, fault, sinkMode, tempFiles, opened, finished,
                   scan, result, reports>>
    /\ UNCHANGED <<convVars, domVars, gateVars, scanVars, startVars, bridgeVars, assocVars, bookVars, extractVars>>

\* where a row loop leaves to when it ends or breaks
AfterRows ==
    IF Units[pc.unit].parser = "firefox_places" THEN AfterQuery
    ELSE Pc("close", pc.unit, pc.fi, 0, 0)

InRowLoop == pc.phase = "rows" /\ pc.ri <= Len(ResultSet(pc.unit, CurFile, pc.q))

\* one iteration of a row loop (chromium_processor.py:200-214,
\* firefox_processor.py:198-210, 223-234, 253-264,
\* safari_edge_processor.py:113-126): poll, read the columns, convert the
\* time, hand the record to create_url_artifact
SqlRow ==
    /\ InRowLoop
    /\ ~cancelled
    /\ fault[CurFile] # "row"
    /\ LET row == ResultSet(pc.unit, CurFile, pc.q)[pc.ri]
       IN  /\ create_url_artifact(DataSource[CurFile].path, row.url,
                                  RowTime(pc.unit, pc.q, row.time),
                                  UnitLabel(pc.unit, CurFile), sinkMode)
           /\ IF ~CallEscapes(row.url, RowTime(pc.unit, pc.q, row.time),
                              UnitLabel(pc.unit, CurFile), sinkMode)
              THEN /\ pc' = [pc EXCEPT !.ri = pc.ri + 1]
                   /\ finished' = finished
              ELSE IF Units[pc.unit].parser = "firefox_places"
              THEN /\ pc' = AfterQuery
                   /\ finished' = finished
              ELSE /\ pc' = AfterFailure
                   /\ finished' = Append(finished, CurFile)
    /\ UNCHANGED <<cancelled, image, fault, sinkMode, tempFiles, opened,
                   scan, result, reports>>
    /\ UNCHANGED <<convVars, domVars, scanVars, startVars, bridgeVars, assocVars, bookVars, extractVars>>

\* the row loop ends, or its poll returns true and it breaks
SqlRowsEnd ==
    /\ pc.phase = "rows"
    /\ ~InRowLoop \/ cancelled
    /\ pc' = AfterRows
    /\ UNCHANGED <<cancelled, image, fault, sinkMode, tempFiles, opened, finished,
                   scan, result, reports>>
    /\ UNCHANGED <<convVars, domVars, gateVars, scanVars, startVars, bridgeVars, assocVars, bookVars, extractVars>>

\* reading a column raises SQLException: a Firefox sub-parser catches it
\* and the parser goes on; the Chromium and Safari parsers leave through
\* their handler (chromium_processor.py:222-225,
\* safari_edge_processor.py:134-137)
SqlRowFails ==
    /\ InRowLoop
    /\ ~cancelled
    /\ fault[CurFile] = "row"
    /\ IF Units[pc.unit].parser = "firefox_places"
       THEN /\ pc' = AfterQuery
            /\ finished' = finished
       ELSE /\ pc' = AfterFailure
            /\ finished' = Append(finished, CurFile)
    /\ UNCHANGED <<cancelled, image, fault, sinkMode, tempFiles, opened, scan,
                   result, reports>>
    /\ UNCHANGED <<convVars, domVars, gateVars, scanVars, startVars, bridgeVars, assocVars, bookVars, extractVars>>

\* the tail of a SQLite parser: close and File(temp_db_path).delete()
\* (chromium_processor.py:216-220, firefox_processor.py:182-185,
\* safari_edge_processor.py:128-132)
SqlClose ==
    /\ pc.phase = "close"
    /\ tempFiles' = tempFiles \ {TempDbPath(pc.unit, CurFile)}
    /\ finished' = Append(finished, CurFile)
    /\ pc' = NextFile
    /\ UNCHANGED <<cancelled, image, fault, sinkMode, opened, scan, result, reports>>
    /\ UNCHANGED <<convVars, domVars, gateVars, scanVars, startVars, bridgeVars, assocVars, bookVars, extractVars>>

\* the head of parse_ie_index_file (ie_processor.py:170-184),
\* parse_ie_webcache_database (ie_processor.py:336-350) and
\* parse_edge_webcache_database (safari_edge_processor.py:175-186): the
\* stream is opened and the first 8192 bytes are read; an exception leaves
\* through the handler of the parser
OpenBinary ==
    /\ InFileLoop
    /\ Ready(CurFile)
    /\ Units[pc.unit].parser \in BinaryParsers
    /\ opened' = Append(opened, CurFile)
    /\ IF fault[CurFile] = "read"
       THEN /\ finished' = Append(finished, CurFile)
            /\ pc' = AfterFailure
       ELSE /\ finished' = finished
            /\ pc' = Pc("read", pc.unit, pc.fi, 0, 1)
    /\ UNCHANGED <<cancelled, image, fault, sinkMode, tempFiles, scan, result, reports>>
    /\ UNCHANGED <<convVars, domVars, gateVars, scanVars, startVars, bridgeVars, assocVars, bookVars, extractVars>>

\* one iteration of the read loop (ie_processor.py:186-195): pc.ri counts
\* the reads that returned data.  The loop leaves when read returns -1 or
\* the poll returns true; the buffer left over is searched if it is not
\* empty.
BinaryRead ==
    /\ pc.phase = "read"
    /\ IF pc.ri > DataSource[CurFile].reads
       THEN pc' = Pc("matches", pc.unit, pc.fi, 0, 1)
       ELSE IF cancelled
       THEN pc' = IF pc.ri = 1 THEN Pc("parsed", pc.unit, pc.fi, 0, 0)
                  ELSE Pc("matches", pc.unit, pc.fi, 0, 1)
       ELSE pc' = [pc EXCEPT !.ri = pc.ri + 1]
    /\ UNCHANGED <<cancelled, image, fault, sinkMode, tempFiles, opened, finished,
                   scan, result, reports>>
    /\ UNCHANGED <<convVars, domVars, gateVars, scanVars, startVars, bridgeVars, assocVars, bookVars, extractVars>>

InMatchLoop == pc.phase = "matches" /\ pc.ri <= Len(DataSource[CurFile].matches)

\* one iteration of the match loop (ie_processor.py:265-277, 385-398,
\* safari_edge_processor.py:222-233); an exception in it ends the
\* extraction from this buffer (ie_processor.py:279-280)
BinaryMatch ==
    /\ InMatchLoop
    /\ ~cancelled
    /\ LET m == DataSource[CurFile].matches[pc.ri]
       IN  /\ create_url_artifact(DataSource[CurFile].path, m.url,
                                  MatchTime(pc.unit, m),
                                  UnitLabel(pc.unit, CurFile), sinkMode)
           /\ IF ~CallEscapes(m.url, MatchTime(pc.unit, m),
                              UnitLabel(pc.unit, CurFile), sinkMode)
              THEN pc' = [pc EXCEPT !.ri = pc.ri + 1]
              ELSE pc' = Pc("parsed", pc.unit, pc.fi, 0, 0)
    /\ UNCHANGED <<cancelled, image, fault, sinkMode, tempFiles, opened, finished,
                   scan, result, reports>>
    /\ UNCHANGED <<convVars, domVars, scanVars, startVars, bridgeVars, assocVars, bookVars, extractVars>>

\* the match loop ends, or its poll returns true and it breaks
BinaryMatchesEnd ==
    /\ pc.phase = "matches"
    /\ ~InMatchLoop \/ cancelled
    /\ pc' = Pc("parsed", pc.unit, pc.fi, 0, 0)
    /\ UNCHANGED <<cancelled, image, fault, sinkMode, tempFiles, opened, finished,
                   scan, result, reports>>
    /\ UNCHANGED <<convVars, domVars, gateVars, scanVars, startVars, bridgeVars, assocVars, bookVars, extractVars>>

\* a binary parser returns to the file loop
BinaryReturn ==
    /\ pc.phase = "parsed"
    /\ finished' = Append(finished, CurFile)
    /\ pc' = NextFile
    /\ UNCHANGED <<cancelled, image, fault, sinkMode, tempFiles, opened, scan,
                   result, reports>>
    /\ UNCHANGED <<convVars, domVars, gateVars, scanVars, startVars, bridgeVars, assocVars, bookVars, extractVars>>

\* parse_ie_bookmark_file (ie_processor.py:206-234): the file is read, the
\* URL= line is handed to create_url_artifact with timestamp 0
ParseBookmarkFile ==
    /\ InFileLoop
    /\ Ready(CurFile)
    /\ Units[pc.unit].parser = "ie_bookmark"
    /\ opened' = Append(opened, CurFile)
    /\ finished' = Append(finished, CurFile)
    /\ IF fault[CurFile] = "read"
       THEN /\ UNCHANGED gateVars
            /\ pc' = AfterFailure
       ELSE /\ create_url_artifact(DataSource[CurFile].path, DataSource[CurFile].url,
                                   BigZero, UnitLabel(pc.unit, CurFile), sinkMode)
            /\ pc' = IF CallEscapes(DataSource[CurFile].url, BigZero,
                                    UnitLabel(pc.unit, CurFile), sinkMode)
                     THEN AfterFailure ELSE NextFile
    /\ UNCHANGED <<cancelled, image, fault, sinkMode, tempFiles, scan, result, reports>>
    /\ UNCHANGED <<convVars, domVars, scanVars, startVars, bridgeVars, assocVars, bookVars, extractVars>>

\* the file list is exhausted: the process_* method returns
FilesDone ==
    /\ pc.phase = "files"
    /\ ~InFileLoop
    /\ pc' = Pc("unit_end", pc.unit, 0, 0, 0)
    /\ UNCHANGED <<cancelled, image, fault, sinkMode, tempFiles, opened, finished,
                   scan, result, reports>>
    /\ UNCHANGED <<convVars, domVars, gateVars, scanVars, startVars, bridgeVars, assocVars, bookVars, extractVars>>

\* back in the family processor: the poll after a stage
\* (firefox_processor.py:32-51, ie_processor.py:37-50), then the next
\* browser or stage
UnitEnd ==
    /\ pc.phase = "unit_end"
    /\ IF pc.unit = FamilyLast(pc.unit)
       THEN /\ pc' = Pc("family_end", pc.unit, 0, 0, 0)
            /\ scan' = scan
       ELSE IF Units[pc.unit].pollAfter /\ dataSourceIngestIsCancelled
       THEN /\ pc' = Pc("family_end", FamilyLast(pc.unit), 0, 0, 0)
            /\ SetScan(Units[pc.unit].family, "Cancelled")
       ELSE /\ pc' = Pc("unit", pc.unit + 1, 0, 0, 0)
            /\ scan' = scan
    /\ UNCHANGED <<cancelled, image, fault, sinkMode, tempFiles, opened, finished,
                   result, reports>>
    /\ UNCHANGED <<convVars, domVars, gateVars, scanVars, startVars, bridgeVars, assocVars, bookVars, extractVars>>

\* back in process(): the poll after a family
\* (phishing_detector_main.py:230-259)
FamilyEnd ==
    /\ pc.phase = "family_end"
    /\ SetScan(Units[pc.unit].family,
               IF scan[Units[pc.unit].family] = "Scanning" THEN "Done"
               ELSE scan[Units[pc.unit].family])
    /\ IF dataSourceIngestIsCancelled
       THEN /\ result' = "OK"
            /\ pc' = Pc("done", 0, 0, 0, 0)
       ELSE /\ result' = result
            /\ pc' = IF pc.unit = NumUnits THEN Pc("report", 0, 0, 0, 0)
                     ELSE Pc("unit", pc.unit + 1, 0, 0, 0)
    /\ UNCHANGED <<cancelled, image, fault, sinkMode, tempFiles, opened, finished,
                   reports>>
    /\ UNCHANGED <<convVars, domVars, gateVars, scanVars, startVars, bridgeVars, assocVars, bookVars, extractVars>>

\* the end of process() (phishing_detector_main.py:265-277): the summary
\* report, the completion message, the return of OK
Report ==
    /\ pc.phase = "report"
    /\ reports' = reports + 1
    /\ result' = "OK"
    /\ pc' = Pc("done", 0, 0, 0, 0)
    /\ UNCHANGED <<cancelled, image, fault, sinkMode, tempFiles, opened, finished, scan>>
    /\ UNCHANGED <<convVars, domVars, gateVars, scanVars, startVars, bridgeVars, assocVars, bookVars, extractVars>>

NextRun ==
    \/ Cancel
    \/ ProcessBegin
    \/ UnitBegin
    \/ FileSkip
    \/ FileCancelled
    \/ OpenSqlite
    \/ PlacesQuery
    \/ SqlRow
    \/ SqlRowsEnd
    \/ SqlRowFails
    \/ SqlClose
    \/ OpenBinary
    \/ BinaryRead
    \/ BinaryMatch
    \/ BinaryMatchesEnd
    \/ BinaryReturn
    \/ ParseBookmarkFile
    \/ FilesDone
    \/ UnitEnd
    \/ FamilyEnd
    \/ Report

RunIdle ==
    /\ pc = Pc("done", 0, 0, 0, 0)
    /\ cancelled = FALSE
    /\ image = "full"
    /\ fault = NoFault
    /\ sinkMode = "ok"
    /\ tempFiles = {}
    /\ opened = <<>>
    /\ finished = <<>>
    /\ scan = [fam \in Families |-> "NotStarted"]
    /\ result = "none"
    /\ reports = 0

(***************************************************************************)
(* startUp (phishing_detector_main.py:143-179) and                         *)
(* create_classification_attribute (181-210).  Every exception raised      *)
(* inside the try block of startUp, the IngestModuleException of           *)
(* create_classification_attribute included, reaches the handler at line   *)
(* 177, which raises IngestModuleException.                                *)
(***************************************************************************)

CaseCalls ==
    {"addArtifactType", "getArtifactType", "getWebHistoryType",
     "getAttributeType", "addArtifactAttributeType", "verifyAttributeType"}

NotCalled == [c \in CaseCalls |-> "not_called"]

\* the value of self.art_url_history after the three attempts of lines
\* 154-165; when all three raise it keeps the None of __init__
ArtifactType(db) ==
    IF db.addArtifactType = "type" THEN "set"
    ELSE IF db.getArtifactType = "type" THEN "set"
    ELSE IF db.getArtifactType = "None" THEN "None"
    ELSE IF db.getWebHistoryType = "type" THEN "set"
    ELSE "None"

\* the fall-back call inside the inner handler raises (line 164)
TypeLookupRaises(db) ==
    /\ db.addArtifactType = "raises"
    /\ db.getArtifactType = "raises"
    /\ db.getWebHistoryType = "raises"

\* create_classification_attribute returns without raising
AttributeReady(db) ==
    \/ db.getAttributeType = "attr"
    \/ /\ db.addArtifactAttributeType = "ok"
       /\ db.verifyAttributeType = "attr"

\* the answers of the case database that follow the control flow of
\* startUp: a call that is not reached has no answer
CaseBehaviours ==
    {db \in [CaseCalls -> {"type", "attr", "ok", "None", "raises", "not_called"}] :
        /\ db.addArtifactType \in {"type", "raises"}
        /\ db.getArtifactType \in
              (IF db.addArtifactType = "raises"
               THEN {"type", "None", "raises"} ELSE {"not_called"})
        /\ db.getWebHistoryType \in
              (IF db.getArtifactType = "raises"
               THEN {"type", "None", "raises"} ELSE {"not_called"})
        /\ db.getAttributeType \in
              (IF ArtifactType(db) = "set"
               THEN {"attr", "None", "raises"} ELSE {"not_called"})
        /\ db.addArtifactAttributeType \in
              (IF db.getAttributeType \in {"None", "raises"}
               THEN {"ok", "raises"} ELSE {"not_called"})
        /\ db.verifyAttributeType \in
              (IF db.addArtifactAttributeType = "ok"
               THEN {"attr", "None", "raises"} ELSE {"not_called"})}

StartIdle ==
    /\ startUpResult = "none"
    /\ skCase = NotCalled

\* startUp: one call, with the case database answering as db
StartUp ==
    /\ startUpResult = "none"
    /\ pc.phase = "idle"
    /\ \E db \in CaseBehaviours :
          /\ skCase' = db
          /\ art_url_history' = ArtifactType(db)
          /\ startUpResult' =
                IF /\ ~TypeLookupRaises(db)
                   /\ ArtifactType(db) # "None"
                   /\ AttributeReady(db)
                THEN "returned"
                ELSE "IngestModuleException"
    /\ UNCHANGED <<statVars, blackboard, calls, lastCall>>
    /\ UNCHANGED <<convVars, domVars, runVars, scanVars, bridgeVars, assocVars, bookVars, extractVars>>

\* the data sources of the runs that follow a startUp: no damaged file, or
\* a row of the first Chrome History file that cannot be read
StartFaults == {NoFault, [NoFault EXCEPT ![1] = "row"]}

\* the module as __init__ leaves it (phishing_detector_main.py:122-141)
StartInit ==
    /\ pc = Pc("idle", 0, 0, 0, 0)
    /\ cancelled = FALSE
    /\ image = "full"
    /\ fault \in StartFaults
    /\ sinkMode = "ok"
    /\ tempFiles = {}
    /\ opened = <<>>
    /\ finished = <<>>
    /\ scan = [fam \in Families |-> "NotStarted"]
    /\ result = "none"
    /\ reports = 0
    /\ art_url_history = "None"
    /\ StatsInit
    /\ StartIdle

NextStart ==
    \/ StartUp
    \/ NextRun

(***************************************************************************)
(* The read loop of the binary parsers (parse_ie_index_file,               *)
(* parse_ie_webcache_database, parse_edge_webcache_database), byte counts  *)
(* only.  What the extractors find in the bytes is modelled in the run.    *)
(***************************************************************************)

\* buffer = jarray.zeros(8192, "b")
BufferSize == 8192

\* if len(content_buffer) > 65536
HighWaterMark == 65536

\* content_buffer[:32768] is processed, content_buffer[32768:] is kept
ChunkSize == 32768

\* the largest file scanned, and the length of a read that does not fill
\* the buffer
MaxFileSize == 1048576

ShortRead == 5000

ScanSizes ==
    {0, 1, BufferSize, HighWaterMark, HighWaterMark + 1,
     HighWaterMark + BufferSize, MaxFileSize}

\* what inputStream.read(buffer) can return with n bytes left: -1 at the
\* end of the file, otherwise the number of bytes put into the buffer
ReadResults(n) ==
    IF n = 0
    THEN {-1}
    ELSE {IF n < BufferSize THEN n ELSE BufferSize} \cup
         {k \in {ShortRead} : k < n}

\* a slice of the file: len bytes from offset start
Slice(start, len) == [start |-> start, len |-> len]

\* content_buffer[:32768] of a buffer of len bytes that starts at offset start
ChunkSlice(start, len) ==
    Slice(start, IF len < ChunkSize THEN len ELSE ChunkSize)

\* a remainder that starts again at the first byte of the buffer
KeptFrom_Same(start, len) == start

\* the offset at which content_buffer[32768:] starts
KeptFrom(start, len) ==
    start + (IF len < ChunkSize THEN len ELSE ChunkSize)

\* a buffer that is never cut
Retained_NoChunk(len) == len

\* the length content_buffer has after the high-water test of an iteration
Retained(len) == IF len > HighWaterMark THEN len - ChunkSize ELSE len

ScanInit ==
    /\ scanPc = "idle"
    /\ file_size \in ScanSizes
    /\ unread = file_size
    /\ bytes_read = 0
    /\ content_len = 0
    /\ handed = 0
    /\ kept_from = 0
    /\ windows = <<>>

ScanIdle ==
    /\ scanPc = "idle"
    /\ file_size = 0
    /\ unread = 0
    /\ bytes_read = 0
    /\ content_len = 0
    /\ handed = 0
    /\ kept_from = 0
    /\ windows = <<>>

\* the stream is opened and the first read is made
ScanOpen ==
    /\ scanPc = "idle"
    /\ \E n \in ReadResults(unread) :
          /\ bytes_read' = n
          /\ unread' = IF n = -1 THEN unread ELSE unread - n
    /\ scanPc' = "head"
    /\ UNCHANGED <<file_size, content_len, handed, kept_from, windows>>
    /\ UNCHANGED <<convVars, domVars, gateVars, runVars, startVars, bridgeVars, assocVars, bookVars, extractVars>>

\* loop body up to the next read: the bytes are appended to content_buffer
ScanExtend ==
    /\ scanPc = "head"
    /\ bytes_read # -1
    /\ ~dataSourceIngestIsCancelled
    /\ content_len' = content_len + bytes_read
    /\ \E n \in ReadResults(unread) :
          /\ bytes_read' = n
          /\ unread' = IF n = -1 THEN unread ELSE unread - n
    /\ scanPc' = "test"
    /\ UNCHANGED <<file_size, handed, kept_from, windows>>
    /\ UNCHANGED <<convVars, domVars, gateVars, runVars, startVars, bridgeVars, assocVars, bookVars, extractVars>>

\* the high-water test at the end of the loop body
ScanChunk ==
    /\ scanPc = "test"
    /\ content_len' = Retained(content_len)
    /\ handed' = handed + (content_len - Retained(content_len))
    /\ IF content_len > HighWaterMark
       THEN /\ windows' = Append(windows, ChunkSlice(kept_from, content_len))
            /\ kept_from' = KeptFrom(kept_from, content_len)
       ELSE UNCHANGED <<kept_from, windows>>
    /\ scanPc' = "head"
    /\ UNCHANGED <<file_size, unread, bytes_read>>
    /\ UNCHANGED <<convVars, domVars, gateVars, runVars, startVars, bridgeVars, assocVars, bookVars, extractVars>>

\* the poll at the head of the loop answers yes: break
ScanBreak ==
    /\ scanPc = "head"
    /\ bytes_read # -1
    /\ dataSourceIngestIsCancelled
    /\ scanPc' = "tail"
    /\ UNCHANGED <<file_size, unread, bytes_read, content_len, handed,
                   kept_from, windows>>
    /\ UNCHANGED <<convVars, domVars, gateVars, runVars, startVars, bridgeVars, assocVars, bookVars, extractVars>>

\* the loop ends at the end of the file
ScanEof ==
    /\ scanPc = "head"
    /\ bytes_read = -1
    /\ scanPc' = "tail"
    /\ UNCHANGED <<file_size, unread, bytes_read, content_len, handed,
                   kept_from, windows>>
    /\ UNCHANGED <<convVars, domVars, gateVars, runVars, startVars, bridgeVars, assocVars, bookVars, extractVars>>

\* the stream is closed and what is left in the buffer is processed
ScanTail ==
    /\ scanPc = "tail"
    /\ handed' = handed + content_len
    /\ windows' = IF content_len > 0
                  THEN Append(windows, Slice(kept_from, content_len))
                  ELSE windows
    /\ scanPc' = "done"
    /\ UNCHANGED <<file_size, unread, bytes_read, content_len, kept_from>>
    /\ UNCHANGED <<convVars, domVars, gateVars, runVars, startVars, bridgeVars, assocVars, bookVars, extractVars>>

\* the user cancels the ingest job while the file is read
ScanCancel ==
    /\ scanPc \in {"head", "test"}
    /\ ~cancelled
    /\ cancelled' = TRUE
    /\ UNCHANGED <<pc, image, fault, sinkMode, tempFiles, opened, finished,
                   scan, result, reports>>
    /\ UNCHANGED <<convVars, domVars, gateVars, scanVars, startVars, bridgeVars, assocVars, bookVars, extractVars>>

NextScan ==
    \/ ScanOpen
    \/ ScanExtend
    \/ ScanChunk
    \/ ScanBreak
    \/ ScanEof
    \/ ScanTail
    \/ ScanCancel

(***************************************************************************)
(* MLBridge (ml_bridge.py): the thread that calls start_bridge,            *)
(* predict_url and stop_bridge, the reader thread, and the child process   *)
(* predict_bridge.py, which is outside the repository and is free to       *)
(* answer, to stay silent and to exit at any time.  A wait loop makes at   *)
(* most MaxPolls iterations before its time is up; the time may also be up *)
(* earlier.                                                                *)
(***************************************************************************)

MaxPolls == 1

MaxPredicts == 1

\* lines the pipe from the child holds at most
MaxPipe == 1

BridgeUrls == {UrlLogin, UrlAb}

Predictions == {"good", "bad", "maybe"}

Labels == {"SAFE", "PHISHING", "UNCERTAIN", "PENDING", "TIMEOUT", "ERROR"}

NoLine == [kind |-> "none", url |-> <<>>, prediction |-> ""]

ReadyLine == [kind |-> "READY", url |-> <<>>, prediction |-> ""]

\* a line that starts with a timestamp in brackets
LogLine == [kind |-> "log", url |-> <<>>, prediction |-> ""]

\* {"url": ..., "prediction": ...}
ResponseLine(url, prediction) ==
    [kind |-> "json", url |-> url, prediction |-> prediction]

UrlRequest(url) == [kind |-> "url", url |-> url]

ExitRequest == [kind |-> "EXIT", url |-> <<>>]

NoPrediction == [url |-> <<>>, ready |-> FALSE, sent |-> FALSE, ret |-> "none"]

\* MLBridge._map_prediction_to_classification
map_prediction_to_classification(prediction) ==
    IF prediction = "good" THEN "SAFE"
    ELSE IF prediction = "bad" THEN "PHISHING"
    ELSE "UNCERTAIN"

\* a deletion that leaves the entry in the dictionary
DictDel_Keep(d, k) == d

\* del d[k], for a key that may be absent
DictDel(d, k) == [x \in DOMAIN d \ {k} |-> d[x]]

\* MLBridge.__init__
BridgeInit ==
    /\ is_ready = FALSE
    /\ process = "None"
    /\ process_reader = "None"
    /\ process_writer = "None"
    /\ pending_requests = <<>>
    /\ child = "absent"
    /\ stdin = <<>>
    /\ stdout = <<>>
    /\ mainPc = "new"
    /\ polls = 0
    /\ startRet = "none"
    /\ predicts = 0
    /\ call = NoPrediction
    /\ readerPc = "none"
    /\ line = NoLine

BridgeIdle == BridgeInit

\* start_bridge up to its wait loop (lines 39-86).  A missing file of the
\* model package, or an exception while the process is started, ends the
\* call with False (lines 45-55, 98-101).
StartBridge ==
    /\ mainPc = "new"
    /\ \/ /\ startRet' = "False"
          /\ mainPc' = "idle"
          /\ UNCHANGED <<process, process_reader, process_writer, child,
                         readerPc, polls>>
       \/ /\ process' = "set"
          /\ process_reader' = "open"
          /\ process_writer' = "open"
          /\ child' = "loading"
          /\ readerPc' = "top"
          /\ polls' = 0
          /\ mainPc' = "start_wait"
          /\ UNCHANGED startRet
    /\ UNCHANGED <<is_ready, pending_requests, stdin, stdout, predicts, call, line>>
    /\ UNCHANGED <<convVars, domVars, gateVars, runVars, scanVars, startVars, assocVars, bookVars, extractVars>>

\* the wait loop of start_bridge (lines 87-88)
StartWait ==
    /\ mainPc = "start_wait"
    /\ \/ /\ ~is_ready
          /\ polls < MaxPolls
          /\ polls' = polls + 1
          /\ mainPc' = mainPc
       \/ /\ mainPc' = "start_decide"
          /\ polls' = polls
    /\ UNCHANGED <<is_ready, process, process_reader, process_writer,
                   pending_requests, child, stdin, stdout, startRet, predicts,
                   call, readerPc, line>>
    /\ UNCHANGED <<convVars, domVars, gateVars, runVars, scanVars, startVars, assocVars, bookVars, extractVars>>

\* if self.is_ready: return True, else stop_bridge() (lines 90-96)
StartDecide ==
    /\ mainPc = "start_decide"
    /\ IF is_ready
       THEN /\ startRet' = "True"
            /\ mainPc' = "idle"
       ELSE /\ startRet' = startRet
            /\ mainPc' = "stop_send"
    /\ UNCHANGED <<is_ready, process, process_reader, process_writer,
                   pending_requests, child, stdin, stdout, polls, predicts,
                   call, readerPc, line>>
    /\ UNCHANGED <<convVars, domVars, gateVars, runVars, scanVars, startVars, assocVars, bookVars, extractVars>>

\* the host stops a bridge that has started
HostStop ==
    /\ mainPc = "idle"
    /\ startRet = "True"
    /\ process_writer = "open"
    /\ mainPc' = "stop_send"
    /\ UNCHANGED <<is_ready, process, process_reader, process_writer,
                   pending_requests, child, stdin, stdout, polls, startRet,
                   predicts, call, readerPc, line>>
    /\ UNCHANGED <<convVars, domVars, gateVars, runVars, scanVars, startVars, assocVars, bookVars, extractVars>>

\* stop_bridge, lines 215-218: EXIT is written and the writer closed
StopSend ==
    /\ mainPc = "stop_send"
    /\ stdin' = IF process_writer = "open" THEN Append(stdin, ExitRequest)
                ELSE stdin
    /\ mainPc' = "stop_wait"
    /\ UNCHANGED <<is_ready, process, process_reader, process_writer,
                   pending_requests, child, stdout, polls, startRet, predicts,
                   call, readerPc, line>>
    /\ UNCHANGED <<convVars, domVars, gateVars, runVars, scanVars, startVars, assocVars, bookVars, extractVars>>

\* stop_bridge, lines 220-232: process.waitFor() returns once the child
\* has exited; is_ready and the three fields are reset; a start_bridge that
\* called stop_bridge returns False
StopFinish ==
    /\ mainPc = "stop_wait"
    /\ process = "set" => child = "exited"
    /\ is_ready' = FALSE
    /\ process' = "None"
    /\ process_reader' = "None"
    /\ process_writer' = "None"
    /\ startRet' = IF startRet = "none" THEN "False" ELSE startRet
    /\ mainPc' = "idle"
    /\ UNCHANGED <<pending_requests, child, stdin, stdout, polls, predicts,
                   call, readerPc, line>>
    /\ UNCHANGED <<convVars, domVars, gateVars, runVars, scanVars, startVars, assocVars, bookVars, extractVars>>

\* predict_url, lines 173-186: the test of is_ready and the request.  With
\* process_writer None the println raises and the handler of line 208
\* returns "ERROR".
PredictCall ==
    /\ mainPc = "idle"
    /\ startRet # "none"
    /\ predicts < MaxPredicts
    /\ predicts' = predicts + 1
    /\ \E url \in BridgeUrls :
          IF ~is_ready
          THEN /\ call' = [url |-> url, ready |-> FALSE, sent |-> FALSE,
                           ret |-> "PENDING"]
               /\ UNCHANGED <<stdin, mainPc, polls>>
          ELSE IF process_writer = "None"
          THEN /\ call' = [url |-> url, ready |-> TRUE, sent |-> FALSE,
                           ret |-> "ERROR"]
               /\ UNCHANGED <<stdin, mainPc, polls>>
          ELSE /\ call' = [url |-> url, ready |-> TRUE, sent |-> TRUE,
                           ret |-> "none"]
               /\ stdin' = Append(stdin, UrlRequest(url))
               /\ mainPc' = "p_mark"
               /\ polls' = 0
    /\ UNCHANGED <<is_ready, process, process_reader, process_writer,
                   pending_requests, child, stdout, startRet, readerPc, line>>
    /\ UNCHANGED <<convVars, domVars, gateVars, runVars, scanVars, startVars, assocVars, bookVars, extractVars>>

\* predict_url, lines 188-189: self.pending_requests[url] = None
PredictMark ==
    /\ mainPc = "p_mark"
    /\ pending_requests' = DictPut(pending_requests, call.url, "None")
    /\ mainPc' = "p_poll"
    /\ UNCHANGED <<is_ready, process, process_reader, process_writer, child,
                   stdin, stdout, polls, startRet, predicts, call, readerPc, line>>
    /\ UNCHANGED <<convVars, domVars, gateVars, runVars, scanVars, startVars, assocVars, bookVars, extractVars>>

\* one iteration of the wait loop of predict_url (lines 191-198)
PredictPoll ==
    /\ mainPc = "p_poll"
    /\ polls < MaxPolls
    /\ IF /\ call.url \in DOMAIN pending_requests
          /\ pending_requests[call.url] # "None"
       THEN /\ call' = [call EXCEPT !.ret = pending_requests[call.url]]
            /\ pending_requests' = DictDel(pending_requests, call.url)
            /\ mainPc' = "idle"
            /\ polls' = polls
       ELSE /\ polls' = polls + 1
            /\ UNCHANGED <<call, pending_requests, mainPc>>
    /\ UNCHANGED <<is_ready, process, process_reader, process_writer, child,
                   stdin, stdout, startRet, predicts, readerPc, line>>
    /\ UNCHANGED <<convVars, domVars, gateVars, runVars, scanVars, startVars, assocVars, bookVars, extractVars>>

\* the time of predict_url is up (lines 200-206)
PredictTimeout ==
    /\ mainPc = "p_poll"
    /\ pending_requests' = DictDel(pending_requests, call.url)
    /\ call' = [call EXCEPT !.ret = "TIMEOUT"]
    /\ mainPc' = "idle"
    /\ UNCHANGED <<is_ready, process, process_reader, process_writer, child,
                   stdin, stdout, polls, startRet, predicts, readerPc, line>>
    /\ UNCHANGED <<convVars, domVars, gateVars, runVars, scanVars, startVars, assocVars, bookVars, extractVars>>

\* the reader thread evaluates self.process_reader.readLine (line 108);
\* with process_reader None this raises, and the handler and the finally
\* clause end the thread (lines 138-141)
ReaderEnter ==
    /\ readerPc = "top"
    /\ IF process_reader = "None"
       THEN /\ is_ready' = FALSE
            /\ readerPc' = "ended"
       ELSE /\ is_ready' = is_ready
            /\ readerPc' = "blocked"
    /\ UNCHANGED <<process, process_reader, process_writer, pending_requests,
                   child, stdin, stdout, mainPc, polls, startRet, predicts,
                   call, line>>
    /\ UNCHANGED <<convVars, domVars, gateVars, runVars, scanVars, startVars, assocVars, bookVars, extractVars>>

\* readLine returns a line
ReaderRead ==
    /\ readerPc = "blocked"
    /\ stdout # <<>>
    /\ line' = Head(stdout)
    /\ stdout' = Tail(stdout)
    /\ readerPc' = "have"
    /\ UNCHANGED <<is_ready, process, process_reader, process_writer,
                   pending_requests, child, stdin, mainPc, polls, startRet,
                   predicts, call>>
    /\ UNCHANGED <<convVars, domVars, gateVars, runVars, scanVars, startVars, assocVars, bookVars, extractVars>>

\* readLine returns None at the end of the stream (lines 109-111, 140-141)
ReaderEof ==
    /\ readerPc = "blocked"
    /\ stdout = <<>>
    /\ child = "exited"
    /\ is_ready' = FALSE
    /\ readerPc' = "ended"
    /\ UNCHANGED <<process, process_reader, process_writer, pending_requests,
                   child, stdin, stdout, mainPc, polls, startRet, predicts,
                   call, line>>
    /\ UNCHANGED <<convVars, domVars, gateVars, runVars, scanVars, startVars, assocVars, bookVars, extractVars>>

\* the reader thread handles the line it has read (lines 113-136) and
\* _handle_response stores a classification for a url that is pending
\* (lines 143-162)
ReaderHandle ==
    /\ readerPc = "have"
    /\ is_ready' = IF line.kind = "READY" THEN TRUE ELSE is_ready
    /\ pending_requests' =
          IF line.kind = "json" /\ line.url \in DOMAIN pending_requests
          THEN DictPut(pending_requests, line.url,
                       map_prediction_to_classification(line.prediction))
          ELSE pending_requests
    /\ readerPc' = "top"
    /\ UNCHANGED <<process, process_reader, process_writer, child, stdin,
                   stdout, mainPc, polls, startRet, predicts, call, line>>
    /\ UNCHANGED <<convVars, domVars, gateVars, runVars, scanVars, startVars, assocVars, bookVars, extractVars>>

\* the child has loaded its model and prints READY
ChildReady ==
    /\ child = "loading"
    /\ Len(stdout) < MaxPipe
    /\ stdout' = Append(stdout, ReadyLine)
    /\ child' = "ready"
    /\ UNCHANGED <<is_ready, process, process_reader, process_writer,
                   pending_requests, stdin, mainPc, polls, startRet, predicts,
                   call, readerPc, line>>
    /\ UNCHANGED <<convVars, domVars, gateVars, runVars, scanVars, startVars, assocVars, bookVars, extractVars>>

\* the child prints a log line
ChildLog ==
    /\ child \in {"loading", "ready"}
    /\ Len(stdout) < MaxPipe
    /\ stdout' = Append(stdout, LogLine)
    /\ UNCHANGED <<is_ready, process, process_reader, process_writer,
                   pending_requests, child, stdin, mainPc, polls, startRet,
                   predicts, call, readerPc, line>>
    /\ UNCHANGED <<convVars, domVars, gateVars, runVars, scanVars, startVars, assocVars, bookVars, extractVars>>

\* the child reads a request and answers it, or reads it and stays silent
ChildAnswer ==
    /\ child = "ready"
    /\ stdin # <<>>
    /\ Head(stdin).kind = "url"
    /\ stdin' = Tail(stdin)
    /\ \/ /\ Len(stdout) < MaxPipe
          /\ \E prediction \in Predictions :
                stdout' = Append(stdout, ResponseLine(Head(stdin).url, prediction))
       \/ stdout' = stdout
    /\ UNCHANGED <<is_ready, process, process_reader, process_writer,
                   pending_requests, child, mainPc, polls, startRet, predicts,
                   call, readerPc, line>>
    /\ UNCHANGED <<convVars, domVars, gateVars, runVars, scanVars, startVars, assocVars, bookVars, extractVars>>

\* the child exits: it has read EXIT, or it dies
ChildExit ==
    /\ child \in {"loading", "ready"}
    /\ child' = "exited"
    /\ UNCHANGED <<is_ready, process, process_reader, process_writer,
                   pending_requests, stdin, stdout, mainPc, polls, startRet,
                   predicts, call, readerPc, line>>
    /\ UNCHANGED <<convVars, domVars, gateVars, runVars, scanVars, startVars, assocVars, bookVars, extractVars>>

\* the steps of a predict_url call once it has sent its request
PredictStep == PredictMark \/ PredictPoll \/ PredictTimeout

NextBridge ==
    \/ StartBridge
    \/ StartWait
    \/ StartDecide
    \/ HostStop
    \/ StopSend
    \/ StopFinish
    \/ PredictCall
    \/ PredictMark
    \/ PredictPoll
    \/ PredictTimeout
    \/ ReaderEnter
    \/ ReaderRead
    \/ ReaderEof
    \/ ReaderHandle
    \/ ChildReady
    \/ ChildLog
    \/ ChildAnswer
    \/ ChildExit

(***************************************************************************)
(* Timestamp association: extract_ie_timestamp_from_buffer and             *)
(* extract_webcache_timestamp_from_buffer (ie_processor.py:282-334,        *)
(* 403-450).  A buffer is a sequence of bytes; byte i of the code is       *)
(* element i + 1 of the sequence.                                          *)
(***************************************************************************)

\* url_pos - 100 and url_pos + len(url_bytes) + 100
IeRadius == 100

\* range(search_start, search_end - 8, 4)
IeStep == 4

\* url_pos - 200 and url_pos + len(url_bytes) + 200
WebcacheRadius == 200

\* range(search_start, search_end - 8, 2)
WebcacheStep == 2

\* a scan that tests a window at every offset
WindowStep_Every(op) == 1

WindowRadius(op) == IF op = "ie" THEN IeRadius ELSE WebcacheRadius

WindowStep(op) == IF op = "ie" THEN IeStep ELSE WebcacheStep

WindowTest(op, filetime) ==
    IF op = "ie" THEN IeWindowTimestamp(filetime)
    ELSE WebcacheWindowTimestamp(filetime)

\* content.find(sub): the lowest offset at which sub occurs, or -1
Find(content, sub) ==
    LET hits == {i \in 0..(Len(content) - Len(sub)) :
                    SubSeq(content, i + 1, i + Len(sub)) = sub}
    IN  IF hits = {} THEN -1
        ELSE CHOOSE i \in hits : \A j \in hits : i <= j

\* search_start = max(0, url_pos - radius)
SearchStart(op, url_pos) ==
    IF url_pos - WindowRadius(op) > 0 THEN url_pos - WindowRadius(op) ELSE 0

\* search_end = min(len(content_bytes), url_pos + len(url_bytes) + radius)
SearchEnd(op, content, sub, url_pos) ==
    IF url_pos + Len(sub) + WindowRadius(op) < Len(content)
    THEN url_pos + Len(sub) + WindowRadius(op)
    ELSE Len(content)

\* the bytes of "http://a.bc"
UrlText == <<104, 116, 116, 112, 58, 47, 47, 97, 46, 98, 99>>

Zeros(n) == [i \in 1..n |-> 0]

\* FILETIME windows of 2015-01-01, 1992-01-01 (inside the bound of
\* index.dat only) and 2000-01-01, and no window at all
StampsBefore ==
    {<<>>, ToBytes(Big3(130645, 440000, 0)), ToBytes(Big3(123386, 976000, 0))}

StampsAfter == {<<>>, ToBytes(Big3(125911, 584000, 0))}

\* buffers: zero bytes, a window, zero bytes, the url or nothing, zero
\* bytes, a window, zero bytes
BufferInputs ==
    {Zeros(pre) \o w1 \o Zeros(gap1) \o text \o Zeros(gap2) \o w2 \o Zeros(post) :
        pre \in {0, 3, 150}, w1 \in StampsBefore, gap1 \in {0, 2, 98},
        text \in {UrlText, <<>>}, gap2 \in {1, 95}, w2 \in StampsAfter,
        post \in {9}}

AssocInit ==
    /\ content_bytes \in BufferInputs
    /\ url_bytes = UrlText
    /\ assocOp = "none"
    /\ assocPc = "start"
    /\ assocI = 0
    /\ assocOut = BigZero

AssocIdle ==
    /\ content_bytes = <<>>
    /\ url_bytes = <<>>
    /\ assocOp = "none"
    /\ assocPc = "start"
    /\ assocI = 0
    /\ assocOut = BigZero

\* the extractor is called: the url is looked up; when it is not in the
\* buffer the call returns 0, otherwise the loop starts at search_start
Associate(op) ==
    /\ assocPc = "start"
    /\ assocOp' = op
    /\ LET url_pos == Find(content_bytes, url_bytes)
       IN  IF url_pos = -1
           THEN /\ assocPc' = "done"
                /\ assocI' = assocI
           ELSE /\ assocPc' = "loop"
                /\ assocI' = SearchStart(op, url_pos)
    /\ assocOut' = BigZero
    /\ UNCHANGED <<content_bytes, url_bytes>>
    /\ UNCHANGED <<convVars, domVars, gateVars, runVars, scanVars, startVars,
                   bridgeVars, bookVars, extractVars>>

AssociateIe == Associate("ie")

AssociateWebcache == Associate("webcache")

\* the end of range(search_start, search_end - 8, step)
LoopStop ==
    SearchEnd(assocOp, content_bytes, url_bytes,
              Find(content_bytes, url_bytes)) - 8

\* one iteration of the for loop: the window at offset i is decoded and
\* tested; a window that passes is returned
TestWindow ==
    /\ assocPc = "loop"
    /\ assocI < LoopStop
    /\ LET r == WindowTest(assocOp,
                    DecodeFiletime(SubSeq(content_bytes, assocI + 1, assocI + 8)))
       IN  IF r.found
           THEN /\ assocOut' = r.ts
                /\ assocPc' = "done"
                /\ assocI' = assocI
           ELSE /\ assocOut' = assocOut
                /\ assocPc' = assocPc
                /\ assocI' = assocI + WindowStep(assocOp)
    /\ UNCHANGED <<content_bytes, url_bytes, assocOp>>
    /\ UNCHANGED <<convVars, domVars, gateVars, runVars, scanVars, startVars,
                   bridgeVars, bookVars, extractVars>>

\* the range is exhausted: return 0
NoWindow ==
    /\ assocPc = "loop"
    /\ assocI >= LoopStop
    /\ assocOut' = BigZero
    /\ assocPc' = "done"
    /\ UNCHANGED <<content_bytes, url_bytes, assocOp, assocI>>
    /\ UNCHANGED <<convVars, domVars, gateVars, runVars, scanVars, startVars,
                   bridgeVars, bookVars, extractVars>>

NextAssoc ==
    \/ AssociateIe
    \/ AssociateWebcache
    \/ TestWindow
    \/ NoWindow

(***************************************************************************)
(* SpecBookmarks: ChromiumProcessor.extract_bookmarks_from_folder          *)
(* (chromium_processor.py:261-293) walks a tree of JSON nodes.  A node is  *)
(* named by its path, the child numbers that lead to it from the root.     *)
(* The recursion is kept as a stack of frames, one per active call, each   *)
(* with the number of children its loop has gone past.                     *)
(***************************************************************************)

\* a JSON value in a children array.  json is "object" or "number"; type,
\* url and date_added are "absent" when has(...) is false; date_added is
\* "bad" when the member is there and getAsLong() raises on it.
JsonNode(type, url, date_added, hasChildren, children) ==
    [json |-> "object", type |-> type, url |-> url, date_added |-> date_added,
     hasChildren |-> hasChildren, children |-> children]

UrlNode(url, date_added) == JsonNode("url", url, date_added, FALSE, <<>>)

FolderNode(children) == JsonNode("folder", "absent", "absent", TRUE, children)

\* a children array element that is not an object
NumberValue ==
    [json |-> "number", type |-> "absent", url |-> "absent",
     date_added |-> "absent", hasChildren |-> FALSE, children |-> <<>>]

WellFormedLeaves ==
    {UrlNode("http://a.b/x", "ok"),
     UrlNode("http://c.d/", "absent"),
     JsonNode("url", "absent", "ok", FALSE, <<>>),
     JsonNode("separator", "absent", "absent", FALSE, <<>>),
     JsonNode("absent", "absent", "absent", TRUE, <<UrlNode("http://e.f/", "ok")>>)}

Leaves == WellFormedLeaves \cup {UrlNode("http://g.h/", "bad"), NumberValue}

InnerFolders ==
    {FolderNode(<<>>), JsonNode("folder", "absent", "absent", FALSE, <<>>)}
    \cup {FolderNode(<<a, b>>) : a, b \in Leaves}
    \cup {FolderNode(<<FolderNode(<<a>>), b>>) : a, b \in Leaves}

\* the folders extract_bookmarks_from_folder is called with
BookmarkRoots ==
    {FolderNode(<<a, b>>) : a \in Leaves \cup InnerFolders, b \in Leaves}
    \cup {FolderNode(<<a, b, c>>) :
             a \in WellFormedLeaves, b \in InnerFolders,
             c \in {UrlNode("http://a.b/x", "ok")}}

RECURSIVE NodeAt(_, _)
NodeAt(node, path) ==
    IF path = <<>> THEN node
    ELSE NodeAt(node.children[Head(path)], Tail(path))

\* children.size() of folder.get("children"), 0 when has("children") is false
ChildCount(node) == IF node.hasChildren THEN Len(node.children) ELSE 0

\* a walk in which no access to a child raises
ChildRaises_Never(node) == FALSE

\* whether handling the child raises: getAsJsonObject() on a value that
\* is not an object (line 271), getAsLong() on a date_added that is not
\* a number (line 283)
ChildRaises(node) ==
    \/ node.json # "object"
    \/ /\ node.type = "url"
       /\ node.url # "absent"
       /\ node.date_added = "bad"

Frame(path, i) == [path |-> path, i |-> i]

Emission(path, url) == [path |-> path, url |-> url]

BookInit ==
    /\ bmRoot \in BookmarkRoots
    /\ bmStack = <<>>
    /\ bmEmitted = <<>>
    /\ bmPc = "idle"

BookIdle ==
    /\ bmRoot = FolderNode(<<>>)
    /\ bmStack = <<>>
    /\ bmEmitted = <<>>
    /\ bmPc = "idle"

\* the frame of the innermost call, the folder it walks, the child its
\* loop has reached and that child's path
TopFrame == bmStack[Len(bmStack)]

TopFolder == NodeAt(bmRoot, TopFrame.path)

TopChildPath == TopFrame.path \o <<TopFrame.i + 1>>

TopChild == TopFolder.children[TopFrame.i + 1]

InLoop ==
    /\ bmPc = "walking"
    /\ bmStack # <<>>
    /\ TopFrame.i < ChildCount(TopFolder)

\* the stack with the innermost loop moved past its current child
Advanced ==
    [bmStack EXCEPT ![Len(bmStack)] = Frame(TopFrame.path, TopFrame.i + 1)]

\* the stack without the innermost call
Returned == SubSeq(bmStack, 1, Len(bmStack) - 1)

\* extract_bookmarks_from_folder(root, ...) is called
BookCall ==
    /\ bmPc = "idle"
    /\ bmPc' = "walking"
    /\ bmStack' = <<Frame(<<>>, 0)>>
    /\ UNCHANGED <<bmRoot, bmEmitted>>
    /\ UNCHANGED <<convVars, domVars, gateVars, runVars, scanVars, startVars,
                   bridgeVars, assocVars, extractVars>>

\* an iteration for a child of type 'url' with a 'url' member (lines
\* 268-286): the gate is called
BookEmit ==
    /\ InLoop
    /\ ~dataSourceIngestIsCancelled
    /\ ~ChildRaises(TopChild)
    /\ TopChild.type = "url"
    /\ TopChild.url # "absent"
    /\ bmEmitted' = Append(bmEmitted, Emission(TopChildPath, TopChild.url))
    /\ bmStack' = Advanced
    /\ UNCHANGED <<bmRoot, bmPc>>
    /\ UNCHANGED <<convVars, domVars, gateVars, runVars, scanVars, startVars,
                   bridgeVars, assocVars, extractVars>>

\* an iteration for a child of type 'folder' (lines 288-290): the
\* recursive call
BookDescend ==
    /\ InLoop
    /\ ~dataSourceIngestIsCancelled
    /\ ~ChildRaises(TopChild)
    /\ TopChild.type = "folder"
    /\ bmStack' = Append(Advanced, Frame(TopChildPath, 0))
    /\ UNCHANGED <<bmRoot, bmEmitted, bmPc>>
    /\ UNCHANGED <<convVars, domVars, gateVars, runVars, scanVars, startVars,
                   bridgeVars, assocVars, extractVars>>

\* an iteration for any other child: nothing is done
BookSkip ==
    /\ InLoop
    /\ ~dataSourceIngestIsCancelled
    /\ ~ChildRaises(TopChild)
    /\ ~(TopChild.type = "url" /\ TopChild.url # "absent")
    /\ TopChild.type # "folder"
    /\ bmStack' = Advanced
    /\ UNCHANGED <<bmRoot, bmEmitted, bmPc>>
    /\ UNCHANGED <<convVars, domVars, gateVars, runVars, scanVars, startVars,
                   bridgeVars, assocVars, extractVars>>

\* an iteration that raises: the handler of lines 292-293 ends the call
BookRaise ==
    /\ InLoop
    /\ ~dataSourceIngestIsCancelled
    /\ ChildRaises(TopChild)
    /\ bmStack' = Returned
    /\ bmPc' = IF Returned = <<>> THEN "done" ELSE bmPc
    /\ UNCHANGED <<bmRoot, bmEmitted>>
    /\ UNCHANGED <<convVars, domVars, gateVars, runVars, scanVars, startVars,
                   bridgeVars, assocVars, extractVars>>

\* the poll at the head of an iteration answers yes (lines 268-269): break
BookBreak ==
    /\ InLoop
    /\ dataSourceIngestIsCancelled
    /\ bmStack' = Returned
    /\ bmPc' = IF Returned = <<>> THEN "done" ELSE bmPc
    /\ UNCHANGED <<bmRoot, bmEmitted>>
    /\ UNCHANGED <<convVars, domVars, gateVars, runVars, scanVars, startVars,
                   bridgeVars, assocVars, extractVars>>

\* the loop of the innermost call is over (or the folder has no
\* 'children'): the call returns
BookReturn ==
    /\ bmPc = "walking"
    /\ bmStack # <<>>
    /\ TopFrame.i >= ChildCount(TopFolder)
    /\ bmStack' = Returned
    /\ bmPc' = IF Returned = <<>> THEN "done" ELSE bmPc
    /\ UNCHANGED <<bmRoot, bmEmitted>>
    /\ UNCHANGED <<convVars, domVars, gateVars, runVars, scanVars, startVars,
                   bridgeVars, assocVars, extractVars>>

\* the user cancels the ingest job during the walk
BookCancel ==
    /\ bmPc = "walking"
    /\ ~cancelled
    /\ cancelled' = TRUE
    /\ UNCHANGED <<pc, image, fault, sinkMode, tempFiles, opened, finished,
                   scan, result, reports>>
    /\ UNCHANGED <<convVars, domVars, gateVars, scanVars, startVars, bridgeVars,
                   assocVars, bookVars, extractVars>>

NextBook ==
    \/ BookCall
    \/ BookEmit
    \/ BookDescend
    \/ BookSkip
    \/ BookRaise
    \/ BookBreak
    \/ BookReturn
    \/ BookCancel

(***************************************************************************)
(* SpecExtract: extract_urls_from_webcache_buffer (ie_processor.py:        *)
(* 369-401) searches one window for its four patterns, one after the       *)
(* other, and calls create_url_artifact for the matches.  A byte of the    *)
(* window is a one-character string, "NUL" for the byte 0.                 *)
(***************************************************************************)

\* if len(clean_url) > 10
MinUrlLength == 10

\* the printable ASCII characters (32 <= b < 127) that occur in the inputs
Letters == {"a", "b", "c", "f", "h", "o", "p", "s", "t", "w", "x",
            "H", "P", "S", "T", "W"}

Printable == Letters \cup {"1", "-", ".", ":", "/", "?", " "}

\* module.safe_buffer_to_string for a bytearray
\* (phishing_detector_main.py:112-118)
safe_buffer_to_string(buffer) ==
    [i \in 1..Len(buffer) |-> IF buffer[i] \in Printable THEN buffer[i] ELSE "?"]

\* c.lower()
LowerChar(c) ==
    CASE c = "H" -> "h" [] c = "P" -> "p" [] c = "S" -> "s"
      [] c = "T" -> "t" [] c = "W" -> "w" [] OTHER -> c

\* whether p occurs in content at index i, letters compared without case
PrefixAt(content, i, p) ==
    /\ i + Len(p) - 1 <= Len(content)
    /\ \A j \in 1..Len(p) : LowerChar(content[i + j - 1]) = p[j]

\* the character classes [^\s\x00-\x1f\x7f-\xff] and [^\s\x00-\x1f]
UrlChar(c) == c \notin Whitespace /\ c # "NUL"

\* the index of the last character of the run of UrlChar that starts at i
RunEnd(content, i) ==
    CHOOSE e \in i..Len(content) :
        /\ \A j \in i..e : UrlChar(content[j])
        /\ e = Len(content) \/ ~UrlChar(content[e + 1])

\* the index of the last character of the match of scheme[^\s...]+ that
\* starts at i, 0 if there is none
SchemeMatchEnd(content, i, scheme) ==
    IF /\ PrefixAt(content, i, scheme)
       /\ i + Len(scheme) <= Len(content)
       /\ UrlChar(content[i + Len(scheme)])
    THEN RunEnd(content, i + Len(scheme))
    ELSE 0

LabelChar(c) == c \in Letters \cup {"1", "-"}

\* the same for www\.[a-zA-Z0-9-]+\.[a-zA-Z]{2,}[^\s\x00-\x1f]*: the label
\* runs up to the first character that is not of its class, which has to
\* be a dot followed by two letters
WwwMatchEnd(content, i) ==
    IF ~PrefixAt(content, i, StrWww) THEN 0
    ELSE LET n == Len(content)
             rest == {j \in (i + 4)..n : ~LabelChar(content[j])}
             dot == IF rest = {} THEN 0
                    ELSE CHOOSE j \in rest : \A k \in rest : j <= k
         IN  IF /\ dot > i + 4
                /\ content[dot] = "."
                /\ dot + 2 <= n
                /\ content[dot + 1] \in Letters
                /\ content[dot + 2] \in Letters
             THEN RunEnd(content, dot + 1)
             ELSE 0

\* url_patterns, ie_processor.py:376-381
NumPatterns == 4

MatchEnd(content, k, i) ==
    CASE k = 1 -> SchemeMatchEnd(content, i, StrHttp)
      [] k = 2 -> SchemeMatchEnd(content, i, StrHttps)
      [] k = 3 -> SchemeMatchEnd(content, i, StrFtp)
      [] OTHER -> WwwMatchEnd(content, i)

\* re.findall(pattern, content, re.IGNORECASE), as the spans of the
\* matches: leftmost first, the search going on after the end of a match
RECURSIVE FindAll(_, _, _)
FindAll(content, k, i) ==
    IF i > Len(content) THEN <<>>
    ELSE LET e == MatchEnd(content, k, i)
         IN  IF e > 0
             THEN <<[from |-> i, to |-> e]>> \o FindAll(content, k, e + 1)
             ELSE FindAll(content, k, i + 1)

\* re.sub(r'[\x00-\x1f\x7f-\xff]', '', url)
CleanUrl(url) == SelectSeq(url, LAMBDA c : c # "NUL")

\* the url handed to create_url_artifact for a match (lines 388-392)
EmittedUrl(url) ==
    IF StartsWith(CleanUrl(url), StrWww) THEN StrHttp \o CleanUrl(url)
    ELSE CleanUrl(url)

StrHost == <<"a", "b", "-", "1">>

\* windows with one url text, with or without a scheme and a 'www.', and
\* after a separator possibly a second one
ExtractInputs ==
    {scheme \o www \o host \o tld \o path \o sep \o second :
        scheme \in {<<>>, StrHttp, <<"H", "T", "T", "P", "S", ":", "/", "/">>, StrFtp},
        www \in {<<>>, StrWww, <<"W", "W", "W", ".">>},
        host \in {StrHost, <<"a">>},
        tld \in {<<".", "c">>, <<".", "c", "o">>},
        path \in {<<>>, <<"/", "x">>},
        sep \in {<<" ">>, <<"NUL">>},
        second \in {<<>>, StrWww \o StrHost \o <<".", "c", "o">>}}

ExtractInit ==
    /\ exBuffer \in ExtractInputs
    /\ exPattern = 0
    /\ exMatches = <<>>
    /\ exIndex = 0
    /\ exCalls = <<>>

ExtractIdle ==
    /\ exBuffer = <<>>
    /\ exPattern = 0
    /\ exMatches = <<>>
    /\ exIndex = 0
    /\ exCalls = <<>>

exContent == safe_buffer_to_string(exBuffer)

\* the matches of pattern k, none when the list of patterns is over
PatternMatches(k) ==
    IF k <= NumPatterns THEN FindAll(exContent, k, 1) ELSE <<>>

\* the function is called: the window is converted and the first pattern
\* is searched (lines 372-384)
ExtractCall ==
    /\ exPattern = 0
    /\ exPattern' = 1
    /\ exMatches' = PatternMatches(1)
    /\ exIndex' = 1
    /\ UNCHANGED <<exBuffer, exCalls>>
    /\ UNCHANGED <<convVars, domVars, gateVars, runVars, scanVars, startVars,
                   bridgeVars, assocVars, bookVars>>

InMatches ==
    /\ exPattern \in 1..NumPatterns
    /\ exIndex <= Len(exMatches)

MatchText ==
    SubSeq(exContent, exMatches[exIndex].from, exMatches[exIndex].to)

\* an iteration of the loop over the matches for a match of more than 10
\* characters (lines 385-398): create_url_artifact is called
ExtractEmit ==
    /\ InMatches
    /\ ~dataSourceIngestIsCancelled
    /\ Len(CleanUrl(MatchText)) > MinUrlLength
    /\ exCalls' = Append(exCalls,
                         [url |-> EmittedUrl(MatchText),
                          from |-> exMatches[exIndex].from,
                          to |-> exMatches[exIndex].to,
                          pattern |-> exPattern])
    /\ exIndex' = exIndex + 1
    /\ UNCHANGED <<exBuffer, exPattern, exMatches>>
    /\ UNCHANGED <<convVars, domVars, gateVars, runVars, scanVars, startVars,
                   bridgeVars, assocVars, bookVars>>

\* an iteration for a match of at most 10 characters
ExtractShort ==
    /\ InMatches
    /\ ~dataSourceIngestIsCancelled
    /\ Len(CleanUrl(MatchText)) <= MinUrlLength
    /\ exIndex' = exIndex + 1
    /\ UNCHANGED <<exBuffer, exPattern, exMatches, exCalls>>
    /\ UNCHANGED <<convVars, domVars, gateVars, runVars, scanVars, startVars,
                   bridgeVars, assocVars, bookVars>>

\* the loop over the matches is over, or its poll answers yes and it
\* breaks (lines 386-387): the next pattern is searched, or the function
\* returns
ExtractNextPattern ==
    /\ exPattern \in 1..NumPatterns
    /\ exIndex > Len(exMatches) \/ dataSourceIngestIsCancelled
    /\ exPattern' = exPattern + 1
    /\ exMatches' = PatternMatches(exPattern + 1)
    /\ exIndex' = 1
    /\ UNCHANGED <<exBuffer, exCalls>>
    /\ UNCHANGED <<convVars, domVars, gateVars, runVars, scanVars, startVars,
                   bridgeVars, assocVars, bookVars>>

\* the user cancels the ingest job while the window is searched
ExtractCancel ==
    /\ exPattern \in 1..NumPatterns
    /\ ~cancelled
    /\ cancelled' = TRUE
    /\ UNCHANGED <<pc, image, fault, sinkMode, tempFiles, opened, finished,
                   scan, result, reports>>
    /\ UNCHANGED <<convVars, domVars, gateVars, scanVars, startVars, bridgeVars,
                   assocVars, bookVars, extractVars>>

NextExtract ==
    \/ ExtractCall
    \/ ExtractEmit
    \/ ExtractShort
    \/ ExtractNextPattern
    \/ ExtractCancel

\* the variables of the other specifications at rest
ConvIdle ==
    /\ convRaw = BigZero
    /\ convWindow = <<>>
    /\ convOp = "none"
    /\ convOut = BigZero
    /\ convFound = FALSE

DomIdle ==
    /\ dUrl = <<>>
    /\ dPc = "start"
    /\ dOut = <<>>
    /\ dOut2 = <<>>

vars == <<convVars, domVars, gateVars, runVars, scanVars, startVars, bridgeVars,
          assocVars, bookVars, extractVars>>

InitTime == ConvInit /\ DomIdle /\ GateIdle /\ RunIdle /\ ScanIdle /\ StartIdle /\ BridgeIdle /\ AssocIdle /\ BookIdle /\ ExtractIdle

SpecTime == InitTime /\ [][NextTime]_vars

InitDomain == DomInit /\ ConvIdle /\ GateIdle /\ RunIdle /\ ScanIdle /\ StartIdle /\ BridgeIdle /\ AssocIdle /\ BookIdle /\ ExtractIdle

SpecDomain == InitDomain /\ [][NextDomain]_vars

InitGate == GateInit /\ ConvIdle /\ DomIdle /\ RunIdle /\ ScanIdle /\ StartIdle /\ BridgeIdle /\ AssocIdle /\ BookIdle /\ ExtractIdle

SpecGate == InitGate /\ [][NextGate]_vars

InitStart == StartInit /\ ConvIdle /\ DomIdle /\ ScanIdle /\ BridgeIdle /\ AssocIdle /\ BookIdle /\ ExtractIdle

SpecStart == InitStart /\ [][NextStart]_vars

InitBridge ==
    /\ BridgeInit /\ ConvIdle /\ DomIdle /\ GateIdle /\ RunIdle /\ ScanIdle
    /\ StartIdle /\ AssocIdle /\ BookIdle /\ ExtractIdle

SpecBridge == InitBridge /\ [][NextBridge]_vars

\* the thread inside predict_url is scheduled again and again
SpecBridgeLive == SpecBridge /\ WF_vars(PredictStep)

InitAssoc ==
    /\ AssocInit /\ ConvIdle /\ DomIdle /\ GateIdle /\ RunIdle /\ ScanIdle
    /\ StartIdle /\ BridgeIdle /\ BookIdle /\ ExtractIdle

SpecAssoc == InitAssoc /\ [][NextAssoc]_vars

InitBook ==
    /\ BookInit /\ ConvIdle /\ DomIdle /\ GateIdle /\ RunIdle /\ ScanIdle
    /\ StartIdle /\ BridgeIdle /\ AssocIdle /\ ExtractIdle

SpecBookmarks == InitBook /\ [][NextBook]_vars

InitExtract ==
    /\ ExtractInit /\ ConvIdle /\ DomIdle /\ GateIdle /\ RunIdle /\ ScanIdle
    /\ StartIdle /\ BridgeIdle /\ AssocIdle /\ BookIdle

SpecExtract == InitExtract /\ [][NextExtract]_vars

InitScan == ScanInit /\ ConvIdle /\ DomIdle /\ GateIdle /\ RunIdle /\ StartIdle /\ BridgeIdle /\ AssocIdle /\ BookIdle /\ ExtractIdle

SpecScan == InitScan /\ [][NextScan]_vars

Init == RunInit /\ GateInit /\ ConvIdle /\ DomIdle /\ ScanIdle /\ StartIdle /\ BridgeIdle /\ AssocIdle /\ BookIdle /\ ExtractIdle

Next == NextRun

Spec == Init /\ [][Next]_vars

(***************************************************************************)
(* Claims about the timestamp conversions (checked under SpecTime).        *)
(***************************************************************************)

\* C4: every conversion yields a value >= 0, and exactly 0 for every raw
\* value <= 0 (so a Chromium raw value below the epoch offset must not give
\* a negative Unix timestamp).
C4_ConversionsNeverNegative ==
    convOp # "none" =>
        /\ BigLE(BigZero, convOut)
        /\ (BigLE(ConvInput, BigZero) => convOut = BigZero)

\* C5: every Chromium reader computes floor((raw - 11644473600000000) /
\* 1000000) for raw > 0 and 0 for raw <= 0; 11644473600000000 gives 0 and
\* 11644473660000000 gives 60.
C5_ChromiumConversion ==
    convOp \in ChromiumOps =>
        /\ IF BigGT(convRaw, BigZero)
           THEN LET d  == BigSub(convRaw, Big3(11644, 473600, 0))
                    lo == BigMulSmall(convOut, 1000000)
                IN  /\ BigLE(lo, d)
                    /\ BigLT(d, BigAdd(lo, BigOfInt(1000000)))
           ELSE convOut = BigZero
        /\ (convRaw = Big3(11644, 473600, 0) => convOut = BigOfInt(0))
        /\ (convRaw = Big3(11644, 473660, 0) => convOut = BigOfInt(60))

C5_Witness ==
    /\ convOp = "chromium_favicon"
    /\ convRaw = Big3(11644, 473660, 0)
    /\ convOut = BigOfInt(60)

\* C6: the Safari conversion is raw + 978307200 for raw > 0 and 0 for
\* raw <= 0; 0 gives 0 and 1 gives 978307201.
C6_SafariConversion ==
    convOp = "safari_history" =>
        /\ IF BigGT(convRaw, BigZero)
           THEN BigSub(convOut, convRaw) = BigOfInt(978307200)
           ELSE convOut = BigZero
        /\ (convRaw = BigOfInt(0) => convOut = BigOfInt(0))
        /\ (convRaw = BigOfInt(1) => convOut = BigOfInt(978307201))

C6_Witness ==
    /\ convOp = "safari_history"
    /\ convRaw = BigOfInt(1)
    /\ convOut = BigOfInt(978307201)

\* the eight bytes of the FILETIME values of 1700-01-01, 2015-01-01 and
\* 2099-01-01
Window1700 == <<0, 64, 198, 174, 221, 253, 110, 0>>

Window2015 == <<0, 128, 185, 226, 85, 37, 208, 1>>

Window2099 == <<0, 64, 157, 254, 145, 82, 46, 2>>

\* seconds since 1970 of a FILETIME value above the epoch offset lie strictly
\* between lowSec and 1893456000 iff
\* offset + (lowSec + 1) * 10^7 <= raw < offset + 1893456000 * 10^7
PlausibleFiletime(raw, lowest) ==
    /\ BigLE(lowest, raw)
    /\ BigLT(raw, Big3(135379, 296000, 0))

\* C7: a window is accepted iff its raw value is above 116444736000000000
\* and the converted value lies strictly inside the calendar bound of the
\* format (index.dat 631152000..1893456000, WebCache 788918400..1893456000);
\* the accepted value is (raw - 116444736000000000) / 10000000; the windows
\* of 1700 and 2099 are rejected and the one of 2015 is accepted.
C7_FiletimePlausibility ==
    convOp \in WindowOps =>
        LET raw == DecodeFiletime(convWindow)
            lowest == IF convOp = "ie_window" THEN Big3(122756, 256010, 0)
                      ELSE Big3(124333, 920010, 0)
        IN  /\ convFound <=> PlausibleFiletime(raw, lowest)
            /\ convFound =>
                   LET d  == BigSub(raw, Big3(116444, 736000, 0))
                       lo == BigMulSmall(convOut, 10000000)
                   IN  /\ BigLE(lo, d)
                       /\ BigLT(d, BigAdd(lo, BigOfInt(10000000)))
            /\ ~convFound => convOut = BigZero
            /\ convWindow \in {Window1700, Window2099} => ~convFound
            /\ convWindow = Window2015 =>
                   convFound /\ convOut = BigOfInt(1420070400)

C7_Witness ==
    /\ convOp = "ie_window"
    /\ convWindow = Window2015
    /\ convFound
    /\ convOut = BigOfInt(1420070400)

(***************************************************************************)
(* Claims about extract_domain (checked under SpecDomain).                 *)
(***************************************************************************)
LowerCase == {"a", "b", "c", "e", "f", "g", "h", "i", "l", "m", "n", "o",
              "p", "s", "t", "w", "x"}

UpperCase == {"C", "E", "W"}

StrExampleCom == <<"e", "x", "a", "m", "p", "l", "e", ".", "c", "o", "m">>

\* C8: extract_domain returns the lowercase host: no upper-case letter is
\* left in the result, "https://WWW.Example.com:8443/a?b" gives
\* "example.com", and blank input gives "".
C8_LowercaseHost ==
    dPc # "start" =>
        /\ \A i \in 1..Len(dOut) : dOut[i] \notin UpperCase
        /\ (dUrl = UrlExample => dOut = StrExampleCom)
        /\ (dUrl = None \/ IsBlank(dUrl) => dOut = <<>>)

\* C9: extract_domain(extract_domain(s)) = extract_domain(s) for every
\* string s.
C9_Idempotent == dPc = "twice" => dOut2 = dOut

(***************************************************************************)
(* Claims about the emission gate (checked under SpecGate).                *)
(***************************************************************************)

\* C1: with the artifact type set and a working sink, a call of
\* create_url_artifact appends one posted artifact for its record to the
\* sink if url is non-blank and browser_type is non-blank and timestamp > 0,
\* and leaves the sink unchanged if any one of the three fails.
C1_EmissionGate ==
    [][(calls' = calls + 1 /\ art_url_history = "set" /\ lastCall'.sink = "ok") =>
          LET c == lastCall'
              ok == /\ c.url # None /\ ~IsBlank(c.url)
                    /\ c.browser # None /\ ~IsBlank(c.browser)
                    /\ BigGT(c.timestamp, BigZero)
          IN  IF ok
              THEN /\ Len(blackboard') = Len(blackboard) + 1
                   /\ SubSeq(blackboard', 1, Len(blackboard)) = blackboard
                   /\ LET a == blackboard'[Len(blackboard')]
                      IN  /\ a.url = c.url
                          /\ a.browser = c.browser
                          /\ a.timestamp = c.timestamp
                          /\ a.posted /\ a.attributes
              ELSE blackboard' = blackboard]_vars

\* one record was accepted and posted, and the call after it was rejected
\* only because of its timestamp
C1_Witness ==
    /\ art_url_history = "set"
    /\ calls = 2
    /\ Len(blackboard) = 1
    /\ blackboard[1].posted
    /\ lastCall.sink = "ok"
    /\ lastCall.url = blackboard[1].url
    /\ lastCall.browser = blackboard[1].browser
    /\ lastCall.timestamp = BigZero


(***************************************************************************)
(* Claims about a run of process() (checked under Spec).                   *)
(***************************************************************************)

\* no SQLite parser is between its first and its last statement
NoParserActive == pc.phase \notin {"query", "rows", "close"}

\* C2: after a SQLite store parser has returned (by success, by a failed
\* connection or query, or by cancellation in the middle of the rows), the
\* scratch copy it wrote into the temp directory no longer exists.
C2_ScratchRemoved == NoParserActive => tempFiles = {}

\* C3: once dataSourceIngestIsCancelled() returns true (and goes on doing
\* so) no further candidate file is handed to a parser, in the family being
\* scanned or in a later one;
\* process() then returns OK rather than raising; and a family scan that
\* is Cancelled stays Cancelled.
C3_CancellationPromptness ==
    [][/\ cancelled => opened' = opened
       /\ (cancelled /\ art_url_history = "set" /\ pc'.phase = "done")
             => result' = "OK"
       /\ \A fam \in Families :
             scan[fam] = "Cancelled" => scan'[fam] = "Cancelled"]_vars

\* the signal flipped while the second of the Chrome History files was
\* parsed: the run has returned, the Chromium scan is Cancelled, and no
\* file of a later family was opened
C3_Witness ==
    /\ pc.phase = "done"
    /\ cancelled
    /\ result = "OK"
    /\ opened = <<1, 2>>
    /\ scan["chromium"] = "Cancelled"
    /\ scan["firefox"] = "NotStarted"

TimesOpened(f) == Cardinality({i \in 1..Len(opened) : opened[i] = f})

\* C12: each candidate file is parsed at most once per run, whether its
\* parse failed or succeeded, so one source row leads to at most one
\* accepted record.
C12_ParsedOnce ==
    /\ \A f \in FileIds : TimesOpened(f) <= 1
    /\ \A i, j \in 1..Len(extracted_urls) :
          (/\ extracted_urls[i].file_path = extracted_urls[j].file_path
           /\ extracted_urls[i].url = extracted_urls[j].url
           /\ extracted_urls[i].timestamp = extracted_urls[j].timestamp) => i = j


\* the units whose file loop hands file f to a parser in a run that is
\* not cancelled
ParsingUnits(f) ==
    {u \in 1..NumUnits :
        /\ Units[u].parser # "log_only"
        /\ \E i \in 1..Len(UnitFiles(u)) : UnitFiles(u)[i] = f
        /\ Regular(f)
        /\ PathCheck(u, f)}

\* C13: a failure in the parse of one file (open, query, or an exception in
\* the middle) stays inside the family processor: in a run that is not
\* cancelled every candidate file of every family is still handed to its
\* parser, the report is generated and process() returns OK.
C13_FailureIsolation ==
    (pc.phase = "done" /\ art_url_history = "set" /\ ~cancelled)
    => /\ result = "OK"
       /\ reports = 1
       /\ \A f \in FileIds : TimesOpened(f) = Cardinality(ParsingUnits(f))
       /\ Len(finished) = Len(opened)

\* the query of the first Chrome History file failed; the second file and
\* the files of the later families were parsed all the same
C13_Witness ==
    /\ pc.phase = "done" /\ ~cancelled /\ image = "full"
    /\ fault[1] = "query"
    /\ result = "OK"
    /\ opened = <<1, 2, 4, 4, 4, 5, 8, 6, 7, 6>>
    /\ url_count > 1


(***************************************************************************)
(* Claims about the read loop of the binary parsers (checked under         *)
(* SpecScan).                                                              *)
(***************************************************************************)

\* C14: whatever the size of the file, content_buffer never holds more than
\* 65536 + 8192 bytes, and at the end of every loop iteration (when the
\* loop is back at its head) it holds at most 65536 bytes.
C14_BufferBound ==
    /\ content_len <= HighWaterMark + BufferSize
    /\ scanPc = "head" => content_len <= HighWaterMark
    /\ scanPc = "done" /\ ~cancelled => handed = file_size

\* the buffer is at its largest, in a file of the largest size, after a
\* chunk has already been cut off
C14_Witness ==
    /\ file_size = MaxFileSize
    /\ scanPc = "test"
    /\ content_len = HighWaterMark + BufferSize
    /\ handed > 0


\* C15: accepted records are never rolled back or reordered.  Every step of
\* a run leaves extracted_urls as it is or appends, at its end, the record
\* of the row the reader has just produced; url_count and the count of
\* every browser never decrease - also in the steps of a failing file and
\* in the steps after a cancellation.
C15_NoRollback ==
    [][/\ \/ extracted_urls' = extracted_urls
          \/ /\ Len(extracted_urls') = Len(extracted_urls) + 1
             /\ SubSeq(extracted_urls', 1, Len(extracted_urls)) = extracted_urls
             /\ extracted_urls'[Len(extracted_urls')].url = lastCall'.url
             /\ extracted_urls'[Len(extracted_urls')].timestamp = lastCall'.timestamp
             /\ extracted_urls'[Len(extracted_urls')].file_path = lastCall'.file
       /\ url_count' >= url_count
       /\ \A b \in DOMAIN browser_counts :
             /\ b \in DOMAIN browser_counts'
             /\ browser_counts'[b] >= browser_counts[b]]_vars

\* two records have been accepted, the query of a later file has failed and
\* the run has then been cancelled in the middle of a file: the records and
\* the counts are still there
C15_Witness ==
    /\ pc.phase = "done" /\ cancelled /\ image = "full"
    /\ fault[4] = "row"
    /\ 4 \in {opened[i] : i \in 1..Len(opened)}
    /\ Len(extracted_urls) >= 2
    /\ extracted_urls[1].url = UrlLogin
    /\ extracted_urls[2].url = UrlWww
    /\ url_count = Len(extracted_urls)
    /\ Len(finished) < 10


\* the order in which process() is to call the family processors
FamilyOrder == <<"chromium", "firefox", "ie", "safari", "edge">>

\* process() stands inside the processor of some family
InsideFamily ==
    pc.phase \in {"files", "query", "rows", "close", "read", "matches",
                  "parsed", "unit_end"}

\* C16: the family processors run strictly one after another in the order
\* Chromium, Firefox, Internet Explorer/WebCache, Safari, Edge Legacy: while
\* process() is inside the processor of a family, every earlier family is
\* Done and no later family has started; at most one file is between the
\* call of its parser and the parser's return.
C16_FamilyOrdering ==
    /\ Len(opened) - Len(finished) \in {0, 1}
    /\ Cardinality({fam \in Families : scan[fam] = "Scanning"}) <= 1
    /\ \A i \in 1..Len(FamilyOrder) :
          (InsideFamily /\ Units[pc.unit].family = FamilyOrder[i])
          => /\ scan[FamilyOrder[i]] \in {"Scanning", "Cancelled"}
             /\ \A j \in 1..(i - 1) : scan[FamilyOrder[j]] = "Done"
             /\ \A j \in (i + 1)..Len(FamilyOrder) :
                   scan[FamilyOrder[j]] = "NotStarted"

\* the Safari parser reads the rows of History.db, the only file being
\* parsed: the three earlier families are done and Edge Legacy has not
\* started
C16_Witness ==
    /\ pc.phase = "rows"
    /\ Units[pc.unit].family = "safari"
    /\ Len(opened) = Len(finished) + 1
    /\ opened[Len(opened)] = 7
    /\ scan["chromium"] = "Done" /\ scan["firefox"] = "Done" /\ scan["ie"] = "Done"
    /\ scan["edge"] = "NotStarted"


(***************************************************************************)
(* Claims about startUp (checked under SpecStart).                         *)
(***************************************************************************)

\* none of the three attempts of startUp yields an artifact type
NoTypeObtainable ==
    /\ skCase.addArtifactType # "type"
    /\ skCase.getArtifactType # "type"
    /\ skCase.getWebHistoryType # "type"

\* TSK_PHISHING_CLASSIFICATION neither exists nor is created and verified
AttributeUnavailable ==
    /\ skCase.getAttributeType # "attr"
    /\ skCase.verifyAttributeType # "attr"

\* C17: a startUp that obtains no artifact type, or that cannot create and
\* verify TSK_PHISHING_CLASSIFICATION, raises IngestModuleException (and a
\* startUp that returns has set the artifact type); a process() that finds
\* art_url_history None returns ERROR and has enumerated and opened no file
\* and emitted no record.
C17_StartupFailureFatal ==
    /\ (startUpResult # "none" /\ (NoTypeObtainable \/ AttributeUnavailable))
       => startUpResult = "IngestModuleException"
    /\ startUpResult = "returned" => art_url_history = "set"
    /\ (art_url_history = "None" /\ pc.phase # "idle")
       => /\ pc.phase = "done"
          /\ result = "ERROR"
          /\ opened = <<>>
          /\ tempFiles = {}
          /\ \A fam \in Families : scan[fam] = "NotStarted"
          /\ calls = 0
          /\ url_count = 0
          /\ extracted_urls = <<>>
          /\ blackboard = <<>>
          /\ reports = 0

\* startUp found no artifact type (the creation and the lookup raised, the
\* fall-back returned None) and raised; the process() called all the same
\* has returned ERROR before any scan
C17_Witness ==
    /\ startUpResult = "IngestModuleException"
    /\ skCase.addArtifactType = "raises"
    /\ skCase.getArtifactType = "raises"
    /\ skCase.getWebHistoryType = "None"
    /\ art_url_history = "None"
    /\ pc.phase = "done"
    /\ result = "ERROR"
    /\ opened = <<>>


InPredict == mainPc \in {"p_mark", "p_poll"}

\* what holds of a predict_url call that has returned
C19_Returned ==
    (call.ret # "none" /\ ~InPredict)
    => /\ call.ret \in Labels
       /\ call.url \notin DOMAIN pending_requests
       /\ ~call.ready <=> call.ret = "PENDING"
       /\ call.ret = "PENDING" => ~call.sent
       /\ call.ret \in {"TIMEOUT", "SAFE", "PHISHING", "UNCERTAIN"} => call.sent

\* C19: predict_url never blocks for ever and never raises.  A call made
\* while the bridge is not ready returns "PENDING" and sends nothing; a call
\* that has sent its request returns within its time, "TIMEOUT" when no
\* classification was stored for it; every call returns one label of SAFE,
\* PHISHING, UNCERTAIN, PENDING, TIMEOUT, ERROR and leaves no entry for its
\* url in pending_requests.
C19_PredictReturns ==
    /\ []C19_Returned
    /\ InPredict ~> ~InPredict

\* a call that sent its request, got no answer and returned TIMEOUT
C19_Witness ==
    /\ mainPc = "idle"
    /\ call.sent
    /\ call.ret = "TIMEOUT"
    /\ call.url \notin DOMAIN pending_requests
    /\ predicts = 1
    /\ is_ready

\* C20: after a start_bridge that returned False, every predict_url call
\* returns "PENDING", whatever the reader thread and stop_bridge did in
\* between.
C20_DisabledAfterFailedStart ==
    (startRet = "False" /\ call.ret # "none") => call.ret = "PENDING"


(***************************************************************************)
(* Claims about the timestamp association (checked under SpecAssoc).       *)
(***************************************************************************)

\* the offsets the scan of extractor op is to test, for a url found at pos
CandidateOffsets(op, pos) ==
    LET radius == IF op = "ie" THEN 100 ELSE 200
        step == IF op = "ie" THEN 4 ELSE 2
        lo == pos - radius
        hi == pos + Len(url_bytes) + radius
        search_start == IF lo > 0 THEN lo ELSE 0
        search_end == IF hi < Len(content_bytes) THEN hi ELSE Len(content_bytes)
    IN  {i \in search_start..(search_end - 9) : (i - search_start) % step = 0}

\* the candidate offsets whose window passes the plausibility check
PassingOffsets(op, pos) ==
    {i \in CandidateOffsets(op, pos) :
        WindowTest(op, DecodeFiletime(SubSeq(content_bytes, i + 1, i + 8))).found}

\* C21: the result is the value of the window at the lowest candidate
\* offset that passes the plausibility check, the candidates being
\* search_start, search_start + step, ... below search_end - 8 (radius 100
\* and step 4 for index.dat, radius 200 and step 2 for WebCache); it is 0
\* when the url is not in the buffer or no candidate passes.
C21_FirstPlausibleWindow ==
    assocPc = "done" =>
        LET pos == Find(content_bytes, url_bytes)
            P == PassingOffsets(assocOp, pos)
        IN  IF pos = -1 \/ P = {}
            THEN assocOut = BigZero
            ELSE LET first == CHOOSE i \in P : \A j \in P : i <= j
                 IN  assocOut =
                        WindowTest(assocOp,
                            DecodeFiletime(SubSeq(content_bytes, first + 1, first + 8))).ts

\* the index.dat scan of a buffer with a window of 1992 before the url and
\* one of 2000 after it, both at candidate offsets: the earlier one wins
C21_Witness ==
    /\ assocOp = "ie"
    /\ assocPc = "done"
    /\ Find(content_bytes, url_bytes) = 8
    /\ Cardinality(PassingOffsets("ie", 8)) >= 2
    /\ assocOut = BigOfInt(694224000)

\* C22: the slices handed to the extractor are consecutive from offset 0,
\* every one before the last holds 32768 bytes, and after a read that was
\* not cancelled the last one is not empty and ends at the end of the
\* file, so that the slices together are the file, each byte once.
C22_WindowsPartitionFile ==
    /\ \A i \in 1..Len(windows) :
          /\ windows[i].start = (IF i = 1 THEN 0
                                 ELSE windows[i - 1].start + windows[i - 1].len)
          /\ windows[i].len > 0
          /\ (i < Len(windows) \/ scanPc # "done") => windows[i].len = 32768
    /\ scanPc = "done" /\ ~cancelled =>
          IF file_size = 0
          THEN windows = <<>>
          ELSE /\ windows # <<>>
               /\ windows[Len(windows)].start + windows[Len(windows)].len
                     = file_size

\* a file of 64 KiB + 8192 bytes read to its end: one slice of 32768 bytes
\* and the remainder of 40960
C22_Witness ==
    /\ scanPc = "done"
    /\ ~cancelled
    /\ file_size = HighWaterMark + BufferSize
    /\ windows = <<Slice(0, ChunkSize), Slice(ChunkSize, file_size - ChunkSize)>>

\* the record of a call is one the gate rejects: the url or the label is
\* missing or blank, the timestamp is not positive, or no artifact type is set
C23_Rejected(c) ==
    \/ c.url = None \/ IsBlank(c.url)
    \/ c.browser = None \/ IsBlank(c.browser)
    \/ BigLE(c.timestamp, BigZero)
    \/ art_url_history = "None"

\* C23: a rejected call of create_url_artifact changes none of url_count,
\* domain_set, browser_counts and extracted_urls, adds no artifact to the
\* sink and does not leave as an exception; the four statistics change only
\* in a call that is not rejected.
C23_RejectionIsInert ==
    [][/\ (calls' = calls + 1 /\ C23_Rejected(lastCall')) =>
             /\ url_count' = url_count
             /\ domain_set' = domain_set
             /\ browser_counts' = browser_counts
             /\ extracted_urls' = extracted_urls
             /\ blackboard' = blackboard
             /\ ~CallEscapes(lastCall'.url, lastCall'.timestamp,
                             lastCall'.browser, lastCall'.sink)
       /\ statVars' # statVars =>
             (calls' = calls + 1 /\ ~C23_Rejected(lastCall'))]_vars

\* after an accepted record, a call with a blank label and otherwise valid
\* fields has returned with the statistics as they were
C23_Witness ==
    /\ art_url_history = "set"
    /\ calls = 2
    /\ url_count = 1
    /\ Len(extracted_urls) = 1
    /\ Len(blackboard) = 1
    /\ lastCall.browser = <<" ">>
    /\ lastCall.url = extracted_urls[1].url
    /\ BigGT(lastCall.timestamp, BigZero)

\* the nodes of type 'url' with a 'url' member that are reached from node
\* through nodes of type 'folder', in document order
RECURSIVE C24_UrlNodes(_, _, _)
C24_UrlNodes(node, path, k) ==
    IF k > ChildCount(node) THEN <<>>
    ELSE LET ch == node.children[k]
             here == IF ch.json = "object" /\ ch.type = "url"
                        /\ ch.url # "absent"
                     THEN <<Emission(path \o <<k>>, ch.url)>>
                     ELSE IF ch.json = "object" /\ ch.type = "folder"
                     THEN C24_UrlNodes(ch, path \o <<k>>, 1)
                     ELSE <<>>
         IN  here \o C24_UrlNodes(node, path, k + 1)

\* C24: the walk calls the gate once for every node of type 'url' that
\* has a 'url' member and is reached from the root through nodes of type
\* 'folder', in document order: what it has emitted is at every moment a
\* prefix of that list, and the whole list when the walk has returned
\* without cancellation; once the signal is set no further node is emitted.
C24_BookmarkWalk ==
    /\ [](LET all == C24_UrlNodes(bmRoot, <<>>, 1)
          IN  /\ Len(bmEmitted) <= Len(all)
              /\ bmEmitted = SubSeq(all, 1, Len(bmEmitted))
              /\ (bmPc = "done" /\ ~cancelled) => bmEmitted = all)
    /\ [][cancelled => bmEmitted' = bmEmitted]_vars

\* the call of process_ie_webcache
C25_Unit == CHOOSE u \in 1..NumUnits : Units[u].method = "process_ie_webcache"

C25_Candidates ==
    {f \in FileIds : DataSource[f].name \in {"WebCacheV01.dat", "WebCacheV24.dat"}}

C25_Label(f) ==
    IF \E w \in {"internet explorer", "iexplore", "temporary internet files",
                  "inetcache", "webcache", "edge", "microsoft"} :
           w \in DataSource[f].contains
    THEN <<"Internet", " ", "Explorer">>
    ELSE <<"Internet", " ", "Explorer/Edge">>

\* C25: process_ie_webcache hands every regular, non-empty WebCache
\* candidate to the parser whatever its parent path is, and each of them
\* once within the call; what is emitted from a candidate carries the label
\* "Internet Explorer" when the parent path holds an IE/Edge indicator and
\* "Internet Explorer/Edge" otherwise.
C25_PermissiveWebCache ==
    /\ pc.unit = C25_Unit =>
          /\ \A f \in C25_Candidates : TimesOpened(f) <= 1
          /\ (pc.phase = "unit_end" /\ ~cancelled) =>
                \A f \in C25_Candidates : Regular(f) => TimesOpened(f) = 1
          /\ (pc.phase = "matches" /\ pc.ri > 1) =>
                lastCall.browser = C25_Label(CurFile)
    /\ \A i \in 1..Len(extracted_urls) : \A f \in C25_Candidates :
          extracted_urls[i].file_path = DataSource[f].path
             => extracted_urls[i].browser = C25_Label(f)

\* the call has gone through both WebCacheV01.dat files: the one under
\* /tmp was parsed and its record carries the generic label
C25_Witness ==
    /\ image = "webcache"
    /\ pc.unit = C25_Unit
    /\ pc.phase = "unit_end"
    /\ ~cancelled
    /\ opened = <<1, 2>>
    /\ Len(extracted_urls) = 2
    /\ extracted_urls[1].browser = <<"Internet", " ", "Explorer">>
    /\ extracted_urls[2].browser = <<"Internet", " ", "Explorer/Edge">>
    /\ extracted_urls[2].file_path = "/tmp/WebCacheV01.dat"

\* C26: a run generates the summary report and posts the completion
\* message at most once, and only when all five family scans have returned
\* and none of the polls after them saw the signal; after that no record is
\* emitted; a poll after a family that sees the signal ends process() with
\* OK and without the report and the message.
C26_ReportOnce ==
    /\ [](reports <= 1)
    /\ [][/\ reports' # reports =>
               /\ reports = 0
               /\ \A fam \in Families : scan[fam] = "Done"
          /\ reports > 0 =>
               /\ calls' = calls
               /\ extracted_urls' = extracted_urls
               /\ blackboard' = blackboard
          /\ (pc.phase = "family_end" /\ cancelled /\ pc' # pc) =>
               /\ pc'.phase = "done"
               /\ result' = "OK"
               /\ reports' = 0]_vars

\* the signal was set while the last family was scanned and seen by the
\* poll after it: process() has returned OK with records emitted and no
\* report
C26_Witness ==
    /\ image = "full"
    /\ pc.phase = "done"
    /\ result = "OK"
    /\ cancelled
    /\ reports = 0
    /\ url_count > 0
    /\ \A fam \in Families \ {"edge"} : scan[fam] = "Done"

\* the sum of the values of the dictionary d over the keys in S
RECURSIVE C27_Sum(_, _)
C27_Sum(d, S) ==
    IF S = {} THEN 0
    ELSE LET k == CHOOSE x \in S : TRUE
         IN  d[k] + C27_Sum(d, S \ {k})

\* C27: after any sequence of calls of create_url_artifact, url_count is
\* the length of extracted_urls and the sum of the values of
\* browser_counts; domain_set is the set of the non-empty domains of the
\* records of extracted_urls, so it has at most url_count elements; and
\* every record has a non-blank url, a non-blank label and a timestamp > 0.
C27_StatisticsConsistent ==
    /\ url_count = Len(extracted_urls)
    /\ url_count = C27_Sum(browser_counts, DOMAIN browser_counts)
    /\ domain_set = {extracted_urls[i].domain : i \in 1..Len(extracted_urls)}
                       \ {<<>>}
    /\ Cardinality(domain_set) <= url_count
    /\ \A i \in 1..Len(extracted_urls) :
          /\ extracted_urls[i].url # None /\ ~IsBlank(extracted_urls[i].url)
          /\ extracted_urls[i].browser # None
          /\ ~IsBlank(extracted_urls[i].browser)
          /\ BigGT(extracted_urls[i].timestamp, BigZero)

\* two records of one label were accepted, the second while the sink
\* refused the artifact
C27_Witness ==
    /\ calls = 2
    /\ url_count = 2
    /\ DOMAIN browser_counts = {<<"Firefox">>}
    /\ browser_counts[<<"Firefox">>] = 2
    /\ lastCall.sink = "new_artifact_fails"
    /\ Len(blackboard) = 1
    /\ extracted_urls[1].domain = <<>>
    /\ domain_set = {<<"a", ".", "b">>}

\* C28: every call of the gate with the label "Edge Legacy" carries the
\* timestamp 0 and is rejected: browser_counts never has the key
\* "Edge Legacy", and neither extracted_urls nor the sink holds a record
\* with that label.
C28_NoEdgeLegacyRecord ==
    /\ (calls > 0 /\ lastCall.browser = <<"Edge", " ", "Legacy">>) =>
          lastCall.timestamp = BigZero
    /\ <<"Edge", " ", "Legacy">> \notin DOMAIN browser_counts
    /\ \A i \in 1..Len(extracted_urls) :
          extracted_urls[i].browser # <<"Edge", " ", "Legacy">>
    /\ \A i \in 1..Len(blackboard) :
          blackboard[i].browser # <<"Edge", " ", "Legacy">>

\* a run has returned after the Edge Legacy scan emitted the url that the
\* WebCache scan had emitted from the same file (and recorded, with its
\* timestamp)
C28_Witness ==
    /\ pc.phase = "done"
    /\ reports = 1
    /\ lastCall.browser = <<"Edge", " ", "Legacy">>
    /\ lastCall.timestamp = BigZero
    /\ \E i \in 1..Len(extracted_urls) :
          /\ extracted_urls[i].url = lastCall.url
          /\ extracted_urls[i].file_path = lastCall.file
          /\ extracted_urls[i].browser = <<"Internet", " ", "Explorer">>

\* C29: a response {url, prediction} that the reader thread handles while
\* predict_url(url) is between its request and its timeout is registered
\* for the caller, whether or not the caller has marked the url as pending
\* yet, and the poll that finds it returns the mapped label: SAFE for
\* "good", PHISHING for "bad", UNCERTAIN for anything else.
C29_NoResponseLost ==
    [][/\ (/\ readerPc = "have" /\ readerPc' = "top"
           /\ line.kind = "json"
           /\ mainPc \in {"p_mark", "p_poll"}
           /\ line.url = call.url) =>
             /\ call.url \in DOMAIN pending_requests'
             /\ pending_requests'[call.url] =
                   (CASE line.prediction = "good" -> "SAFE"
                      [] line.prediction = "bad" -> "PHISHING"
                      [] OTHER -> "UNCERTAIN")
       /\ (/\ mainPc = "p_poll" /\ mainPc' = "idle" /\ polls < MaxPolls
           /\ call.url \in DOMAIN pending_requests
           /\ pending_requests[call.url] # "None"
           /\ call'.ret # "TIMEOUT") =>
             call'.ret = pending_requests[call.url]]_vars

\* C30: one occurrence of a url text in the window leads to at most one
\* call of create_url_artifact: no two calls carry the same url from
\* matches that overlap in the window, so "http://www.host.tld/..." matched
\* by the http:// pattern is not emitted again through the 'www.' pattern
\* with "http://" prepended.
C30_OneCallPerOccurrence ==
    \A i, j \in 1..Len(exCalls) :
        (/\ i < j
         /\ exCalls[i].url = exCalls[j].url
         /\ exCalls[i].from <= exCalls[j].to
         /\ exCalls[j].from <= exCalls[i].to) => FALSE

=============================================================================
